---- MODULE Spec2Model ----
(***************************************************************************)
(* MP3 frame scanner of the MP3 Analyzer API                               *)
(* (api/src/services/mp3-parser.ts and its constant tables).               *)
(*                                                                         *)
(* A call of getMp3FrameCount is a small state machine: Enter runs the     *)
(* two tag helpers, Iterate runs one pass of the while loop, LoopExit is   *)
(* the loop guard failing, Return and Catch settle the call.  The same     *)
(* loop body is also available as the pure operator GetMp3FrameCount, for  *)
(* statements that relate the counts of two different buffers.             *)
(*                                                                         *)
(* Buffer offsets are zero-based as in the source; At(file, i) is file[i]. *)
(***************************************************************************)
EXTENDS Integers, Sequences, FiniteSets, TLC

VARIABLES
    src,          \* ghost: how the caller built the argument (reference kind, tag, frames, rest)
    file,         \* the bytes of the Buffer object the caller passed
    pc,           \* position of the call: "entry", "loop", "ret", "catch", "done"
    frameCount,   \* local frameCount
    position,     \* local position
    endPosition,  \* local endPosition
    error,        \* the error caught by the catch clause ("none" when none)
    outcome,      \* how the call settled: [kind, value, error]
    decodes,      \* ghost: number of parseFrameHeader calls made by the current call
    log,          \* ghost: the calls settled so far, <<[src, outcome]>>
    \* WorkerPool (workers/worker-pool.ts)
    workers,          \* this.workers: the workers the pool holds, in creation order
    availableWorkers, \* this.availableWorkers: a stack of idle workers
    taskQueue,        \* this.taskQueue: the waiting tasks, oldest first
    workerTasks,      \* this.workerTasks: worker -> the task it is bound to
    tasks,            \* the WorkerTask objects, numbered in submission order
    threads,          \* the worker threads created so far: [state, exitCode, inbox]
    terminateCall,    \* the activation of terminate(): [state, awaited, queued, inFlight]
    \* POST /api/file-upload (middleware/upload.ts, controllers/analyze.controller.ts)
    upload,           \* the multipart request as the client sent it
    req,              \* req.file and req.fileValidationError
    res,              \* the response sent, [status, error, frameCount]
    stage,            \* position in the middleware chain
    scanned           \* ghost: the buffers handed to getMp3FrameCount

scanVars == <<src, file, pc, frameCount, position, endPosition, error, outcome, decodes, log>>

poolVars == <<workers, availableWorkers, taskQueue, workerTasks, tasks, threads,
              terminateCall>>

httpVars == <<upload, req, res, stage, scanned>>

vars == <<src, file, pc, frameCount, position, endPosition, error, outcome, decodes, log,
          workers, availableWorkers, taskQueue, workerTasks, tasks, threads,
          terminateCall,
          upload, req, res, stage, scanned>>

----------------------------------------------------------------------------
(* Bounds of the model *)

MaxFrames == 2     \* frames in a generated stream
MaxShort  == 4     \* length of the exhaustively enumerated short buffers
MaxZeros  == 132   \* length of the all-zero buffers
MaxCalls  == 3     \* calls in a row (SpecCalls)

----------------------------------------------------------------------------
(* Constants of constants/Mp3Parsing.ts and constants/Mp3.ts *)

ID3V2_IDENTIFIER == <<73, 68, 51>>
ID3V2_HEADER_SIZE == 10
ID3V1_IDENTIFIER == <<84, 65, 71>>
ID3V1_TAG_SIZE == 128
MP3_FRAME_HEADER_SIZE == 4
FRAME_SYNC_VALUE == 2047
FRAME_SYNC_MASK == 2047
MPEG_VERSION_V1 == 3
LAYER_III == 1
FRAME_LENGTH_MULTIPLIER == 144
KBPS_TO_BPS == 1000

\* the table entry of index i is BITRATES_V1_L3[i + 1]
BITRATES_V1_L3 == <<0, 32, 40, 48, 56, 64, 80, 96, 112, 128, 160, 192, 224, 256, 320, -1>>
\* the table entry of index i is SAMPLE_RATES_V1[i + 1]
SAMPLE_RATES_V1 == <<44100, 48000, 32000, -1>>

----------------------------------------------------------------------------
(* JavaScript values and operators the scanner relies on *)

Undefined == -1            \* file[i] for an index outside the buffer

At(buf, i) == IF i >= 0 /\ i < Len(buf) THEN buf[i + 1] ELSE Undefined

\* ToInt32: the wrap-around every bitwise operator applies to its operands.
\* The argument is given as its 16-bit halves so that no intermediate value
\* leaves the 32-bit range.
ToInt32(hi, lo) == (IF hi >= 32768 THEN hi - 65536 ELSE hi) * 65536 + lo

\* x >> n on an int32: sign-propagating shift
ShiftRight(x, n) == x \div (2 ^ n)

\* x << n for the operands of skipId3v2Tag (a byte shifted by at most 21
\* stays below 2^31, so the int32 wrap never applies)
ShiftLeft(x, n) == x * (2 ^ n)

\* a & b, b >= 0, a in two's complement
RECURSIVE BitAnd(_, _)
BitAnd(a, b) ==
    IF b = 0 THEN 0
    ELSE (a % 2) * (b % 2) + 2 * BitAnd(a \div 2, b \div 2)

\* a | b for non-negative a, b
RECURSIVE BitOr(_, _)
BitOr(a, b) ==
    IF a = 0 THEN b
    ELSE IF b = 0 THEN a
    ELSE (IF a % 2 = 1 \/ b % 2 = 1 THEN 1 ELSE 0) + 2 * BitOr(a \div 2, b \div 2)

\* Math.floor(a / b)
FloorDiv(a, b) == IF b > 0 THEN a \div b ELSE (0 - a) \div (0 - b)

----------------------------------------------------------------------------
(* The helpers of mp3-parser.ts *)

\* skipId3v2Tag with the 10 header bytes left out of the tag's end
skipId3v2Tag_BodyOnly(buf, pos) ==
    IF pos + ID3V2_HEADER_SIZE > Len(buf) THEN pos
    ELSE IF /\ At(buf, pos) = ID3V2_IDENTIFIER[1]
            /\ At(buf, pos + 1) = ID3V2_IDENTIFIER[2]
            /\ At(buf, pos + 2) = ID3V2_IDENTIFIER[3]
         THEN LET size == BitOr(BitOr(BitOr(ShiftLeft(At(buf, pos + 6), 21),
                                            ShiftLeft(At(buf, pos + 7), 14)),
                                      ShiftLeft(At(buf, pos + 8), 7)),
                                At(buf, pos + 9))
              IN pos + size
         ELSE pos

skipId3v2Tag(buf, pos) ==
    IF pos + ID3V2_HEADER_SIZE > Len(buf) THEN pos
    ELSE IF /\ At(buf, pos) = ID3V2_IDENTIFIER[1]
            /\ At(buf, pos + 1) = ID3V2_IDENTIFIER[2]
            /\ At(buf, pos + 2) = ID3V2_IDENTIFIER[3]
         THEN LET size == BitOr(BitOr(BitOr(ShiftLeft(At(buf, pos + 6), 21),
                                            ShiftLeft(At(buf, pos + 7), 14)),
                                      ShiftLeft(At(buf, pos + 8), 7)),
                                At(buf, pos + 9))
                  tagEnd == pos + ID3V2_HEADER_SIZE + size
              IN tagEnd
         ELSE pos

\* getEndPosition that wants more than the tag in the buffer
getEndPosition_LongerThanTag(buf) ==
    IF Len(buf) > ID3V1_TAG_SIZE
    THEN LET id3v1Position == Len(buf) - ID3V1_TAG_SIZE
         IN IF /\ At(buf, id3v1Position) = ID3V1_IDENTIFIER[1]
               /\ At(buf, id3v1Position + 1) = ID3V1_IDENTIFIER[2]
               /\ At(buf, id3v1Position + 2) = ID3V1_IDENTIFIER[3]
            THEN id3v1Position
            ELSE Len(buf)
    ELSE Len(buf)

\* getEndPosition that never looks for the trailing tag
getEndPosition_WholeFile(buf) == Len(buf)

getEndPosition(buf) ==
    IF Len(buf) >= ID3V1_TAG_SIZE
    THEN LET id3v1Position == Len(buf) - ID3V1_TAG_SIZE
         IN IF /\ At(buf, id3v1Position) = ID3V1_IDENTIFIER[1]
               /\ At(buf, id3v1Position + 1) = ID3V1_IDENTIFIER[2]
               /\ At(buf, id3v1Position + 2) = ID3V1_IDENTIFIER[3]
            THEN id3v1Position
            ELSE Len(buf)
    ELSE Len(buf)

\* buffer.readUInt32BE(offset), already wrapped to the int32 every `>>` of
\* parseFrameHeader turns it into
readUInt32BE(buf, offset) ==
    ToInt32(At(buf, offset) * 256 + At(buf, offset + 1),
            At(buf, offset + 2) * 256 + At(buf, offset + 3))

NoHeader == [frameSync |-> 0, mpegVersion |-> 0, layer |-> 0,
             bitrateIndex |-> 0, sampleRateIndex |-> 0, padding |-> 0]

\* parseFrameHeader with the six fields packed one after the other from the
\* top of the word
parseFrameHeader_PackedFields(buf, offset) ==
    IF offset + 4 > Len(buf) \/ offset < 0
    THEN [raised |-> "RangeError", header |-> NoHeader]
    ELSE LET headerBytes == readUInt32BE(buf, offset)
         IN [raised |-> "none",
             header |-> [frameSync       |-> BitAnd(ShiftRight(headerBytes, 21), FRAME_SYNC_MASK),
                         mpegVersion     |-> BitAnd(ShiftRight(headerBytes, 19), 3),
                         layer           |-> BitAnd(ShiftRight(headerBytes, 17), 3),
                         bitrateIndex    |-> BitAnd(ShiftRight(headerBytes, 13), 15),
                         sampleRateIndex |-> BitAnd(ShiftRight(headerBytes, 11), 3),
                         padding         |-> BitAnd(ShiftRight(headerBytes, 10), 1)]]

\* parseFrameHeader with the shifted word used as the frame sync unmasked
parseFrameHeader_UnmaskedSync(buf, offset) ==
    IF offset + 4 > Len(buf) \/ offset < 0
    THEN [raised |-> "RangeError", header |-> NoHeader]
    ELSE LET headerBytes == readUInt32BE(buf, offset)
         IN [raised |-> "none",
             header |-> [frameSync       |-> ShiftRight(headerBytes, 21),
                         mpegVersion     |-> BitAnd(ShiftRight(headerBytes, 19), 3),
                         layer           |-> BitAnd(ShiftRight(headerBytes, 17), 3),
                         bitrateIndex    |-> BitAnd(ShiftRight(headerBytes, 12), 15),
                         sampleRateIndex |-> BitAnd(ShiftRight(headerBytes, 10), 3),
                         padding         |-> BitAnd(ShiftRight(headerBytes, 9), 1)]]

\* raised = "RangeError" is the throw of the bounds check (or of
\* readUInt32BE itself for a negative offset)
parseFrameHeader(buf, offset) ==
    IF offset + 4 > Len(buf) \/ offset < 0
    THEN [raised |-> "RangeError", header |-> NoHeader]
    ELSE LET headerBytes == readUInt32BE(buf, offset)
         IN [raised |-> "none",
             header |-> [frameSync       |-> BitAnd(ShiftRight(headerBytes, 21), FRAME_SYNC_MASK),
                         mpegVersion     |-> BitAnd(ShiftRight(headerBytes, 19), 3),
                         layer           |-> BitAnd(ShiftRight(headerBytes, 17), 3),
                         bitrateIndex    |-> BitAnd(ShiftRight(headerBytes, 12), 15),
                         sampleRateIndex |-> BitAnd(ShiftRight(headerBytes, 10), 3),
                         padding         |-> BitAnd(ShiftRight(headerBytes, 9), 1)]]

\* isValidFrame without the test for the reserved bitrate index
isValidFrame_AcceptsReserved(header) ==
    IF header.frameSync # FRAME_SYNC_VALUE THEN FALSE
    ELSE IF header.mpegVersion # MPEG_VERSION_V1 THEN FALSE
    ELSE IF header.layer # LAYER_III THEN FALSE
    ELSE IF header.bitrateIndex = 0 THEN FALSE
    ELSE IF header.sampleRateIndex = 3 THEN FALSE
    ELSE TRUE

isValidFrame(header) ==
    IF header.frameSync # FRAME_SYNC_VALUE THEN FALSE
    ELSE IF header.mpegVersion # MPEG_VERSION_V1 THEN FALSE
    ELSE IF header.layer # LAYER_III THEN FALSE
    ELSE IF header.bitrateIndex = 0 \/ header.bitrateIndex = 15 THEN FALSE
    ELSE IF header.sampleRateIndex = 3 THEN FALSE
    ELSE TRUE

\* calculateFrameLength with Math.round for Math.floor
calculateFrameLength_Rounded(header) ==
    LET bitrate == BITRATES_V1_L3[header.bitrateIndex + 1]
        sampleRate == SAMPLE_RATES_V1[header.sampleRateIndex + 1]
        bitrateInBps == bitrate * KBPS_TO_BPS
    IN FloorDiv(2 * FRAME_LENGTH_MULTIPLIER * bitrateInBps + sampleRate, 2 * sampleRate)
         + header.padding

calculateFrameLength(header) ==
    LET bitrate == BITRATES_V1_L3[header.bitrateIndex + 1]
        sampleRate == SAMPLE_RATES_V1[header.sampleRateIndex + 1]
        bitrateInBps == bitrate * KBPS_TO_BPS
    IN FloorDiv(FRAME_LENGTH_MULTIPLIER * bitrateInBps, sampleRate) + header.padding

----------------------------------------------------------------------------
(* getMp3FrameCount *)

\* The loop body with `>` for `>=` in the boundary test
LoopBody_CountsAtBoundary(buf, pos, endPos, count) ==
    LET parsed == parseFrameHeader(buf, pos)
        header == parsed.header
    IN IF parsed.raised # "none"
       THEN [pc |-> "catch", position |-> pos, frameCount |-> count, error |-> parsed.raised]
       ELSE IF isValidFrame(header)
       THEN LET nextPosition == pos + calculateFrameLength(header)
            IN IF nextPosition > endPos
               THEN [pc |-> "ret", position |-> pos, frameCount |-> count, error |-> "none"]
               ELSE [pc |-> "loop", position |-> nextPosition, frameCount |-> count + 1,
                     error |-> "none"]
       ELSE [pc |-> "loop", position |-> pos + 1, frameCount |-> count, error |-> "none"]

\* The loop body of the first version of the service: the frame is counted
\* as soon as its header is valid, wherever it ends
LoopBody_CountsBeforeBoundary(buf, pos, endPos, count) ==
    LET parsed == parseFrameHeader(buf, pos)
        header == parsed.header
    IN IF parsed.raised # "none"
       THEN [pc |-> "catch", position |-> pos, frameCount |-> count, error |-> parsed.raised]
       ELSE IF isValidFrame(header)
       THEN [pc |-> "loop", position |-> pos + calculateFrameLength(header),
             frameCount |-> count + 1, error |-> "none"]
       ELSE [pc |-> "loop", position |-> pos + 1, frameCount |-> count, error |-> "none"]

\* The loop body that steps over the whole header it has rejected
LoopBody_SkipsRejectedHeader(buf, pos, endPos, count) ==
    LET parsed == parseFrameHeader(buf, pos)
        header == parsed.header
    IN IF parsed.raised # "none"
       THEN [pc |-> "catch", position |-> pos, frameCount |-> count, error |-> parsed.raised]
       ELSE IF isValidFrame(header)
       THEN LET nextPosition == pos + calculateFrameLength(header)
            IN IF nextPosition >= endPos
               THEN [pc |-> "ret", position |-> pos, frameCount |-> count, error |-> "none"]
               ELSE [pc |-> "loop", position |-> nextPosition, frameCount |-> count + 1,
                     error |-> "none"]
       ELSE [pc |-> "loop", position |-> pos + MP3_FRAME_HEADER_SIZE, frameCount |-> count,
             error |-> "none"]

\* The loop body that looks at the same position again after a rejected
\* header
LoopBody_StaysOnRejectedHeader(buf, pos, endPos, count) ==
    LET parsed == parseFrameHeader(buf, pos)
        header == parsed.header
    IN IF parsed.raised # "none"
       THEN [pc |-> "catch", position |-> pos, frameCount |-> count, error |-> parsed.raised]
       ELSE IF isValidFrame(header)
       THEN LET nextPosition == pos + calculateFrameLength(header)
            IN IF nextPosition >= endPos
               THEN [pc |-> "ret", position |-> pos, frameCount |-> count, error |-> "none"]
               ELSE [pc |-> "loop", position |-> nextPosition, frameCount |-> count + 1,
                     error |-> "none"]
       ELSE [pc |-> "loop", position |-> pos, frameCount |-> count, error |-> "none"]

\* The loop body with the counter moved the wrong way
LoopBody_CountsDown(buf, pos, endPos, count) ==
    LET parsed == parseFrameHeader(buf, pos)
        header == parsed.header
    IN IF parsed.raised # "none"
       THEN [pc |-> "catch", position |-> pos, frameCount |-> count, error |-> parsed.raised]
       ELSE IF isValidFrame(header)
       THEN LET nextPosition == pos + calculateFrameLength(header)
            IN IF nextPosition >= endPos
               THEN [pc |-> "ret", position |-> pos, frameCount |-> count, error |-> "none"]
               ELSE [pc |-> "loop", position |-> nextPosition, frameCount |-> count - 1,
                     error |-> "none"]
       ELSE [pc |-> "loop", position |-> pos + 1, frameCount |-> count, error |-> "none"]

\* One pass of the body of the while loop (lines 47-70), entered with the
\* loop guard true.  The result says where control goes next: back to the
\* guard ("loop"), to the return statement after `break` ("ret"), or to the
\* catch clause ("catch").
LoopBody(buf, pos, endPos, count) ==
    LET parsed == parseFrameHeader(buf, pos)
        header == parsed.header
    IN IF parsed.raised # "none"
       THEN [pc |-> "catch", position |-> pos, frameCount |-> count, error |-> parsed.raised]
       ELSE IF isValidFrame(header)
       THEN LET frameLength == calculateFrameLength(header)
                nextPosition == pos + frameLength
            IN IF nextPosition >= endPos
               THEN [pc |-> "ret", position |-> pos, frameCount |-> count, error |-> "none"]
               ELSE [pc |-> "loop", position |-> nextPosition, frameCount |-> count + 1,
                     error |-> "none"]
       ELSE [pc |-> "loop", position |-> pos + 1, frameCount |-> count, error |-> "none"]

\* The loop guard without the room for a header
LoopGuard_NoHeaderRoom(pos, endPos) == pos < endPos

\* The loop guard as a test for the exact end
LoopGuard_UntilBoundary(pos, endPos) == pos # endPos - MP3_FRAME_HEADER_SIZE

\* The loop guard of line 46
LoopGuard(pos, endPos) == pos < endPos - MP3_FRAME_HEADER_SIZE

\* The catch clause that lets a TypeError through to the caller
CatchClause_RethrowsTypeError(err) ==
    IF err = "RangeError"
    THEN [kind |-> "return", value |-> 0, error |-> "none"]
    ELSE [kind |-> "throw", value |-> 0, error |-> err]

\* The catch clause (lines 74-84): bounds and type errors become a count of
\* 0, anything else is thrown on to the caller.
CatchClause(err) ==
    IF err = "RangeError" \/ err = "TypeError"
    THEN [kind |-> "return", value |-> 0, error |-> "none"]
    ELSE [kind |-> "throw", value |-> 0, error |-> err]

ReturnValue(count) == [kind |-> "return", value |-> count, error |-> "none"]

Unsettled == [kind |-> "none", value |-> 0, error |-> "none"]

\* The kinds of value that have a length and indexed bytes: a Buffer, and
\* the plain Uint8Array a Buffer becomes when it is posted to another thread
HasBytes(ref) == ref = "buffer" \/ ref = "uint8array"

\* The entry block with frameCount kept outside the function: it starts
\* from whatever the previous call left
EntryBlock_SharedCount(ref, buf) ==
    IF ~HasBytes(ref)
    THEN [pc |-> "catch", frameCount |-> frameCount, position |-> 0, endPosition |-> 0,
          error |-> "TypeError"]
    ELSE [pc |-> "loop", frameCount |-> frameCount, position |-> skipId3v2Tag(buf, 0),
          endPosition |-> getEndPosition(buf), error |-> "none"]

\* Lines 36-43 for a reference of kind ref: reading file.length of null or
\* undefined raises a TypeError inside the try block.
EntryBlock(ref, buf) ==
    IF ~HasBytes(ref)
    THEN [pc |-> "catch", frameCount |-> 0, position |-> 0, endPosition |-> 0,
          error |-> "TypeError"]
    ELSE [pc |-> "loop", frameCount |-> 0, position |-> skipId3v2Tag(buf, 0),
          endPosition |-> getEndPosition(buf), error |-> "none"]

RECURSIVE ScanLoop(_, _, _, _)
ScanLoop(buf, pos, endPos, count) ==
    IF ~LoopGuard(pos, endPos) THEN ReturnValue(count)
    ELSE LET b == LoopBody(buf, pos, endPos, count)
         IN IF b.pc = "loop" THEN ScanLoop(buf, b.position, endPos, b.frameCount)
            ELSE IF b.pc = "ret" THEN ReturnValue(b.frameCount)
            ELSE CatchClause(b.error)

\* The loop on a value of kind ref.  A Uint8Array has no readUInt32BE: the
\* first pass of the loop raises a TypeError at line 161, unless the bounds
\* check of line 154 has raised its RangeError before.
ScanLoopOf(ref, buf, pos, endPos, count) ==
    IF ref = "buffer" THEN ScanLoop(buf, pos, endPos, count)
    ELSE IF ~LoopGuard(pos, endPos) THEN ReturnValue(count)
    ELSE CatchClause(IF parseFrameHeader(buf, pos).raised # "none"
                     THEN parseFrameHeader(buf, pos).raised
                     ELSE "TypeError")

\* The whole call as a function of its argument
GetMp3FrameCount(ref, buf) ==
    LET e == EntryBlock(ref, buf)
    IN IF e.pc = "catch" THEN CatchClause(e.error)
       ELSE ScanLoopOf(ref, buf, e.position, e.endPosition, e.frameCount)

----------------------------------------------------------------------------
(* The buffers the scanner is run on.  A source describes how a buffer is  *)
(* put together: an optional leading tag, a stream of frames, and the      *)
(* bytes that follow the stream.                                           *)

Zeros(n) == [i \in 1..n |-> 0]

\* seq with the bytes of pat written at zero-based offset off (where they fit)
Overlay(seq, pat, off) ==
    [i \in 1..Len(seq) |->
        IF i - 1 >= off /\ i - 1 < off + Len(pat) THEN pat[i - off] ELSE seq[i]]

\* createHeaderValue followed by writeUInt32BE (the unit tests' frame builder)
createHeaderBuffer(frameSync, mpegVersion, layer, bitrateIndex, sampleRateIndex, padding) ==
    << frameSync \div 8,
       (frameSync % 8) * 32 + mpegVersion * 8 + layer * 2,
       bitrateIndex * 16 + sampleRateIndex * 4 + padding * 2,
       0 >>

\* encodeSynchsafe of the unit tests
encodeSynchsafe(value) ==
    << (value \div 2097152) % 128, (value \div 16384) % 128, (value \div 128) % 128, value % 128 >>

\* createId3v2Tag(size) followed by a body of size bytes: zeros with pat at off
Id3v2Tag(size, pat, off) ==
    ID3V2_IDENTIFIER \o <<3, 0, 0>> \o encodeSynchsafe(size) \o Overlay(Zeros(size), pat, off)

\* A 128-byte trailer starting with the given three marker bytes
Trailer(marker) == marker \o Zeros(ID3V1_TAG_SIZE - 3)

SyncHeader == createHeaderBuffer(2047, 3, 1, 5, 1, 0)

\* The frame formats in use, with their lengths as the format defines them
FrameKinds ==
    { [bitrateIndex |-> 5, sampleRateIndex |-> 1, padding |-> 0, len |-> 192],
      [bitrateIndex |-> 5, sampleRateIndex |-> 1, padding |-> 1, len |-> 193],
      [bitrateIndex |-> 1, sampleRateIndex |-> 1, padding |-> 0, len |-> 96] }

\* What a frame's payload holds besides zeros: a byte pattern at an offset
\* of the frame
PayloadMarks ==
    { [pat |-> <<>>, off |-> 4],
      [pat |-> ID3V1_IDENTIFIER, off |-> 69],
      [pat |-> ID3V1_IDENTIFIER, off |-> 160],
      [pat |-> SyncHeader, off |-> 8] }

\* Marked payloads are generated for the unpadded 64 kbps frame only
Frames ==
    { f \in [kind : FrameKinds, mark : PayloadMarks] :
        f.mark.pat = <<>> \/ (f.kind.bitrateIndex = 5 /\ f.kind.padding = 0) }

FrameBytes(f) ==
    Overlay(createHeaderBuffer(2047, 3, 1, f.kind.bitrateIndex, f.kind.sampleRateIndex,
                               f.kind.padding) \o Zeros(f.kind.len - 4),
            f.mark.pat,
            IF f.mark.off + Len(f.mark.pat) <= f.kind.len THEN f.mark.off ELSE f.kind.len)

RECURSIVE StreamBytes(_)
StreamBytes(frames) ==
    IF frames = <<>> THEN <<>>
    ELSE FrameBytes(Head(frames)) \o StreamBytes(Tail(frames))

Streams == UNION { [1..n -> Frames] : n \in 0..MaxFrames }

LeadingTags ==
    { <<>>,
      Id3v2Tag(0, <<>>, 0),
      Id3v2Tag(5, SyncHeader, 0),
      Id3v2Tag(35, ID3V1_IDENTIFIER, 3) }

Rests ==
    { <<>>, Zeros(1), Zeros(5), Zeros(6),
      Trailer(ID3V1_IDENTIFIER), Trailer(<<84, 65, 0>>) }

ShortAlphabet == {0, 255, 250, 84}

ShortBuffers == UNION { [1..n -> ShortAlphabet] : n \in 0..MaxShort }

BufferSource(tag, frames, rest) ==
    [ref |-> "buffer", tag |-> tag, frames |-> frames, rest |-> rest]

AbsentSource(ref) == [ref |-> ref, tag |-> <<>>, frames |-> <<>>, rest |-> <<>>]

StreamSources == { BufferSource(t, fs, r) : t \in LeadingTags, fs \in Streams, r \in Rests }
ShortSources  == { BufferSource(<<>>, <<>>, b) : b \in ShortBuffers }
ZeroSources   == { BufferSource(<<>>, <<>>, Zeros(n)) : n \in 0..MaxZeros }
AbsentSources == { AbsentSource("null"), AbsentSource("undefined") }

\* A ten-byte tag header with the four size bytes as given, whatever follows
Id3v2Header(b6, b7, b8, b9) == ID3V2_IDENTIFIER \o <<3, 0, 0>> \o <<b6, b7, b8, b9>>

\* The size fields: every value of each byte with the other three at zero,
\* and every combination of a few values
SizeByteSample == {0, 127, 128, 255}

SizeFields ==
    { <<b, 0, 0, 0>> : b \in 0..255 } \cup { <<0, b, 0, 0>> : b \in 0..255 } \cup
    { <<0, 0, b, 0>> : b \in 0..255 } \cup { <<0, 0, 0, b>> : b \in 0..255 } \cup
    (SizeByteSample \X SizeByteSample \X SizeByteSample \X SizeByteSample)

\* Tag headers followed by less than they announce (or by nothing)
HeaderSources ==
    { BufferSource(Id3v2Header(sz[1], sz[2], sz[3], sz[4]), <<>>, Zeros(6)) :
        sz \in SizeFields } \cup
    { BufferSource(Id3v2Header(0, 0, 0, b), <<>>, <<>>) : b \in SizeByteSample }

\* Ten bytes with each byte of the marker right or wrong, and the marker
\* with only six bytes after it
MarkerSources ==
    { BufferSource(<<>>, <<>>, <<i, d, t, 3, 0, 0, 0, 0, 0, 5>>) :
        i \in {73, 105}, d \in {68, 0}, t \in {51, 50} } \cup
    { BufferSource(<<>>, <<>>, ID3V2_IDENTIFIER \o <<3, 0, 0, 0, 0, 5>>) }

\* Four header bytes with every field as given: prot is the bit between
\* the layer and the bitrate index, low is the fourth byte
HeaderWord(frameSync, mpegVersion, layer, prot, bitrateIndex, sampleRateIndex, padding, low) ==
    << frameSync \div 8,
       (frameSync % 8) * 32 + mpegVersion * 8 + layer * 2 + prot,
       bitrateIndex * 16 + sampleRateIndex * 4 + padding * 2,
       low >>

\* Header words followed by two bytes, so that the header at offset 0 and
\* the one at offset 1 are decoded: every bitrate index, sample-rate index
\* and padding under a valid sync, version and layer, and every version and
\* layer under three sync values
WordSources ==
    { BufferSource(<<>>, <<>>, HeaderWord(2047, 3, 1, prot, bi, sri, pad, low) \o Zeros(2)) :
        prot \in 0..1, bi \in 0..15, sri \in 0..3, pad \in 0..1, low \in {0, 255} } \cup
    { BufferSource(<<>>, <<>>, HeaderWord(fs, v, l, prot, 9, 2, 1, 255) \o Zeros(2)) :
        fs \in {2047, 2046, 1023}, v \in 0..3, l \in 0..3, prot \in 0..1 }

\* Buffers that end (or do not end) in a trailing tag: a 128-byte block with
\* each marker byte right or wrong, alone or after some bytes, and a block
\* one byte short
TrailerSources ==
    { BufferSource(<<>>, <<>>, Zeros(n) \o Trailer(<<t, a, g>>)) :
        n \in {0, 1, 5}, t \in {84, 85}, a \in {65, 97}, g \in {71, 0} } \cup
    { BufferSource(<<>>, <<>>, ID3V1_IDENTIFIER \o Zeros(ID3V1_TAG_SIZE - 4)) }

Sources ==
    StreamSources \cup ShortSources \cup ZeroSources \cup AbsentSources \cup HeaderSources
        \cup WordSources \cup TrailerSources \cup MarkerSources

Assemble(s) == s.tag \o StreamBytes(s.frames) \o s.rest

----------------------------------------------------------------------------
(* The other components at rest: a pool as its constructor leaves it       *)
(* (worker-pool.ts lines 20-27) and a server that has received no upload.  *)

NoTerminate == [state |-> "none", awaited |-> {}, queued |-> {}, inFlight |-> {}]

NewWorkerPool ==
    /\ workers = <<>>
    /\ availableWorkers = <<>>
    /\ taskQueue = <<>>
    /\ workerTasks = <<>>
    /\ tasks = <<>>
    /\ threads = <<>>
    /\ terminateCall = NoTerminate

NoResponse == [status |-> 0, error |-> "none", frameCount |-> -1]

\* req.file undefined
NoFile == [present |-> FALSE, mimetype |-> "", originalname |-> <<>>, buffer |-> <<>>]

\* A request before any middleware has run.  timer is the timer of the
\* timeout middleware: "unset", "armed", "due" (the delay has elapsed, the
\* callback has not run yet), "fired" (the callback has run), "cleared"
\* (cleared in time) or "overdue" (cleared after the delay had elapsed)
NewRequest == [file |-> NoFile, fileValidationError |-> FALSE, timedout |-> FALSE,
               timer |-> "unset"]

NoUpload ==
    /\ upload = NoFile
    /\ req = NewRequest
    /\ res = NoResponse
    /\ stage = "idle"
    /\ scanned = <<>>

----------------------------------------------------------------------------
(* One call of getMp3FrameCount, step by step *)

InitWith(sources) ==
    /\ src \in sources
    /\ file = Assemble(src)
    /\ pc = "entry"
    /\ frameCount = 0
    /\ position = 0
    /\ endPosition = 0
    /\ error = "none"
    /\ outcome = Unsettled
    /\ decodes = 0
    /\ log = <<>>
    /\ NewWorkerPool
    /\ NoUpload

\* lines 35-43
Enter ==
    /\ pc = "entry"
    /\ LET e == EntryBlock(src.ref, file)
       IN /\ pc' = e.pc
          /\ position' = e.position
          /\ endPosition' = e.endPosition
          /\ error' = e.error
          /\ frameCount' = e.frameCount
    /\ decodes' = 0
    /\ UNCHANGED <<src, file, outcome, log>>
    /\ UNCHANGED <<poolVars, httpVars>>

\* the locals after one pass of the loop body
IterateLocals ==
    /\ pc = "loop"
    /\ LoopGuard(position, endPosition)
    /\ LET b == LoopBody(file, position, endPosition, frameCount)
       IN /\ pc' = b.pc
          /\ position' = b.position
          /\ frameCount' = b.frameCount
          /\ error' = b.error
    /\ decodes' = decodes + 1
    /\ UNCHANGED <<src, endPosition, outcome, log>>
    /\ UNCHANGED <<poolVars, httpVars>>

\* A pass of the loop that decodes the header destructively (the four
\* header bytes are cleared once read)
Iterate_ClearsHeader ==
    /\ IterateLocals
    /\ file' = Overlay(file, Zeros(4), position)

\* lines 46-70: the buffer is only read
Iterate ==
    /\ IterateLocals
    /\ file' = file

\* line 46, guard false
LoopExit ==
    /\ pc = "loop"
    /\ ~LoopGuard(position, endPosition)
    /\ pc' = "ret"
    /\ UNCHANGED <<src, file, frameCount, position, endPosition, error, outcome, decodes, log>>
    /\ UNCHANGED <<poolVars, httpVars>>

\* line 73
Return ==
    /\ pc = "ret"
    /\ outcome' = ReturnValue(frameCount)
    /\ log' = Append(log, [src |-> src, outcome |-> outcome'])
    /\ pc' = "done"
    /\ UNCHANGED <<src, file, frameCount, position, endPosition, error, decodes>>
    /\ UNCHANGED <<poolVars, httpVars>>

\* lines 74-84
Catch ==
    /\ pc = "catch"
    /\ outcome' = CatchClause(error)
    /\ log' = Append(log, [src |-> src, outcome |-> outcome'])
    /\ pc' = "done"
    /\ UNCHANGED <<src, file, frameCount, position, endPosition, error, decodes>>
    /\ UNCHANGED <<poolVars, httpVars>>

Init == InitWith(Sources)

Next == Enter \/ Iterate \/ LoopExit \/ Return \/ Catch

Spec == Init /\ [][Next]_vars


----------------------------------------------------------------------------
(* Scans of packed header words: the word the unit tests build from six    *)
(* field values, after off zero bytes and before two more.                 *)

PackedSource(off, frameSync, mpegVersion, layer, bitrateIndex, sampleRateIndex, padding) ==
    BufferSource(Zeros(off), <<>>,
                 createHeaderBuffer(frameSync, mpegVersion, layer, bitrateIndex,
                                    sampleRateIndex, padding) \o Zeros(2))

\* every frame sync under two settings of the other fields, and every
\* setting of the other fields under three frame syncs at two offsets
PackedSources ==
    { PackedSource(0, fs, 3, 1, 9, 0, 0) : fs \in 0..2047 } \cup
    { PackedSource(0, fs, 0, 2, 6, 3, 1) : fs \in 0..2047 } \cup
    { PackedSource(off, fs, v, l, bi, sri, pad) :
        off \in 0..1, fs \in {0, 1024, 2047}, v \in 0..3, l \in 0..3, bi \in 0..15,
        sri \in 0..3, pad \in 0..1 }

InitPacked == InitWith(PackedSources \cup AbsentSources)

SpecPacked == InitPacked /\ [][Next]_vars

----------------------------------------------------------------------------
(* parseFrameHeader called on its own (it is exported), next to whole      *)
(* scans of the same buffers.  For a direct call position is the offset    *)
(* argument and pc goes from "parse" to "parsed".                          *)

ParseSources ==
    ShortSources \cup AbsentSources \cup
    { BufferSource(<<>>, <<>>, SyncHeader \o Zeros(n)) : n \in 0..2 }

InitParse ==
    /\ src \in ParseSources
    /\ file = Assemble(src)
    /\ \/ pc = "entry" /\ position = 0
       \/ pc = "parse" /\ src.ref = "buffer" /\ position \in 0..(Len(file) + 1)
    /\ frameCount = 0
    /\ endPosition = 0
    /\ error = "none"
    /\ outcome = Unsettled
    /\ decodes = 0
    /\ log = <<>>
    /\ NewWorkerPool
    /\ NoUpload

\* parseFrameHeader(file, position), lines 152-195: the call throws or
\* returns the header HeaderAt(file, position)
ParseCall ==
    /\ pc = "parse"
    /\ LET parsed == parseFrameHeader(file, position)
       IN /\ error' = parsed.raised
          /\ outcome' = IF parsed.raised # "none"
                         THEN [kind |-> "throw", value |-> 0, error |-> parsed.raised]
                         ELSE [kind |-> "return", value |-> 0, error |-> "none"]
    /\ decodes' = decodes + 1
    /\ pc' = "parsed"
    /\ UNCHANGED <<src, file, frameCount, position, endPosition, log>>
    /\ UNCHANGED <<poolVars, httpVars>>

NextParse == ParseCall \/ Enter \/ Iterate \/ LoopExit \/ Return \/ Catch

SpecParse == InitParse /\ [][NextParse]_vars

----------------------------------------------------------------------------
(* Several calls in a row, as a caller that reuses the function does.  The *)
(* locals of the previous activation are whatever it left behind; Enter    *)
(* initializes them again.                                                 *)

PlainFrame(bitrateIndex, padding, len) ==
    [kind |-> [bitrateIndex |-> bitrateIndex, sampleRateIndex |-> 1, padding |-> padding,
               len |-> len],
     mark |-> [pat |-> <<>>, off |-> 4]]

CallSources ==
    { AbsentSource("null"),
      BufferSource(<<>>, <<>>, <<>>),
      BufferSource(<<>>, <<>>, Zeros(6)),
      BufferSource(<<>>, <<PlainFrame(5, 0, 192)>>, Zeros(5)),
      BufferSource(Id3v2Tag(5, SyncHeader, 0),
                   <<PlainFrame(5, 0, 192), PlainFrame(1, 0, 96), PlainFrame(5, 1, 193)>>,
                   <<>>) }

NextCall ==
    /\ pc = "done"
    /\ Len(log) < MaxCalls
    /\ \E s \in CallSources :
          /\ src' = s
          /\ file' = Assemble(s)
    /\ pc' = "entry"
    /\ outcome' = Unsettled
    /\ UNCHANGED <<frameCount, position, endPosition, error, decodes, log>>
    /\ UNCHANGED <<poolVars, httpVars>>

InitCalls == InitWith(CallSources)

\* The buffers whose scans are followed to their end: the short and the
\* all-zero buffers, the header words, the trailers and a few streams
FairSources ==
    ShortSources \cup ZeroSources \cup WordSources \cup TrailerSources \cup MarkerSources
        \cup CallSources

InitFair == InitWith(FairSources)

\* The call is ordinary sequential code: a step that can be taken is taken
SpecFair == InitFair /\ [][Next]_vars /\ WF_vars(Next)

NextCalls == Enter \/ Iterate \/ LoopExit \/ Return \/ Catch \/ NextCall

SpecCalls == InitCalls /\ [][NextCalls]_vars

----------------------------------------------------------------------------
(* The worker pool (workers/worker-pool.ts, the version with timedOut) and  *)
(* the worker script (workers/mp3-parser.worker.ts).                        *)
(*                                                                         *)
(* Workers are numbered in creation order; threads[w] is the thread behind *)
(* worker w and lives on after the pool has dropped w.  Tasks are numbered *)
(* in submission order.  Every handler of the pool runs to completion, so  *)
(* each one is a single action; the operators in lower case are the        *)
(* methods of the class, as functions from pool state to pool state.       *)

MAX_WORKERS == 1        \* constants/Workers.ts, with WORKER_THREADS=1

MaxTasks      == 4      \* calls of execute
MaxThreads    == 3      \* worker threads created over a run

\* The buffers submitted to the pool: one holding a single counted frame,
\* one holding no frame
PoolBuffers ==
    << Assemble(BufferSource(<<>>, <<PlainFrame(5, 0, 192)>>, Zeros(5))),
       Zeros(6) >>

TimedOutError   == "Worker task timed out"
TerminatedError == "Worker pool terminated"
ExitedError     == "Worker exited with code 1"
WorkerFailure   == "Worker failed"
UnknownError    == "Unknown error in worker"

Pending == [state |-> "pending", value |-> 0, error |-> "none"]
Resolved(value) == [state |-> "resolved", value |-> value, error |-> "none"]
Rejected(err) == [state |-> "rejected", value |-> 0, error |-> err]

\* A promise settles once: resolve and reject of a settled promise do nothing
Settle(promise, to) == IF promise.state = "pending" THEN to ELSE promise

\* Array.prototype.splice(indexOf(x), 1) when x is present
RemoveFirst(seq, x) ==
    IF \E i \in 1..Len(seq) : seq[i] = x
    THEN LET i == CHOOSE k \in 1..Len(seq) : seq[k] = x /\ \A j \in 1..(k - 1) : seq[j] # x
         IN SubSeq(seq, 1, i - 1) \o SubSeq(seq, i + 1, Len(seq))
    ELSE seq

PoolState ==
    [workers |-> workers, availableWorkers |-> availableWorkers, taskQueue |-> taskQueue,
     workerTasks |-> workerTasks, tasks |-> tasks, threads |-> threads]

\* A task object whose timer is not started when the task is made
NewTask_TimerUnset(buffer) ==
    [buffer |-> buffer, timedOut |-> FALSE, timeout |-> "unset", promise |-> Pending]

\* lines 36-80: the task object, its timer started by setTimeout
NewTask(buffer) ==
    [buffer |-> buffer, timedOut |-> FALSE, timeout |-> "armed", promise |-> Pending]

\* task.resolve, lines 38-44
taskResolve(p, t, value) ==
    IF p.tasks[t].timedOut THEN p
    ELSE [p EXCEPT !.tasks[t].timeout = "cleared",
                   !.tasks[t].promise = Settle(@, Resolved(value))]

\* task.reject, lines 45-51
taskReject(p, t, err) ==
    IF p.tasks[t].timedOut THEN p
    ELSE [p EXCEPT !.tasks[t].timeout = "cleared",
                   !.tasks[t].promise = Settle(@, Rejected(err))]

\* worker.terminate(): a running thread is stopped and will emit 'exit'
terminateThread(state) == IF state = "running" THEN "terminating" ELSE state

\* lines 113-197 (the worker file exists): a new thread with its handlers
createWorker(p) ==
    [p EXCEPT !.threads = Append(@, [state |-> "running", exitCode |-> 0, inbox |-> <<>>]),
              !.workerTasks = Append(@, 0),
              !.workers = Append(@, Len(p.threads) + 1)]

\* lines 202-205; a message posted to a thread that is no longer running is
\* never read
executeTask(p, w, t) ==
    [p EXCEPT !.workerTasks[w] = t,
              !.threads[w].inbox = IF p.threads[w].state = "running" THEN Append(@, t) ELSE @]

\* getAvailableWorker without the limit: a worker is created whenever none
\* is idle
getAvailableWorker_NoLimit(p) ==
    IF Len(p.availableWorkers) > 0
    THEN [pool |-> [p EXCEPT !.availableWorkers = SubSeq(@, 1, Len(@) - 1)],
          worker |-> p.availableWorkers[Len(p.availableWorkers)]]
    ELSE [pool |-> createWorker(p), worker |-> Len(p.threads) + 1]

\* lines 96-108; worker 0 stands for null
getAvailableWorker(p) ==
    IF Len(p.availableWorkers) > 0
    THEN [pool |-> [p EXCEPT !.availableWorkers = SubSeq(@, 1, Len(@) - 1)],
          worker |-> p.availableWorkers[Len(p.availableWorkers)]]
    ELSE IF Len(p.workers) < MAX_WORKERS
    THEN [pool |-> createWorker(p), worker |-> Len(p.threads) + 1]
    ELSE [pool |-> p, worker |-> 0]

\* lines 210-221
returnWorker(p, w) ==
    IF Len(p.taskQueue) > 0
    THEN executeTask([p EXCEPT !.taskQueue = Tail(@)], w, Head(p.taskQueue))
    ELSE [p EXCEPT !.availableWorkers = Append(@, w)]

\* removeWorker that only drops the worker (the earlier revision of the
\* method): nothing takes its place
removeWorker_NoReplacement(p, w) ==
    [p EXCEPT !.workers = RemoveFirst(@, w),
              !.availableWorkers = RemoveFirst(@, w),
              !.workerTasks[w] = 0,
              !.threads[w].state = terminateThread(@)]

\* lines 226-269
removeWorker(p, w) ==
    LET p1 == [p EXCEPT !.workers = RemoveFirst(@, w),
                        !.availableWorkers = RemoveFirst(@, w),
                        !.workerTasks[w] = 0,
                        !.threads[w].state = terminateThread(@)]
        replacementWorker == Len(p1.threads) + 1
        p2 == createWorker(p1)
    IN IF Len(p1.workers) < MAX_WORKERS
       THEN IF Len(p2.taskQueue) > 0
            THEN executeTask([p2 EXCEPT !.taskQueue = Tail(@)], replacementWorker,
                             Head(p2.taskQueue))
            ELSE [p2 EXCEPT !.availableWorkers = Append(@, replacementWorker)]
       ELSE p1

\* lines 34-91
execute(p, buffer) ==
    LET t == Len(p.tasks) + 1
        p1 == [p EXCEPT !.tasks = Append(@, NewTask(buffer))]
        g == getAvailableWorker(p1)
    IN IF g.worker # 0
       THEN executeTask(g.pool, g.worker, t)
       ELSE [g.pool EXCEPT !.taskQueue = Append(@, t)]

\* The worker bound to task t, 0 when there is none (lines 58-65)
BoundWorker(p, t) ==
    IF \E w \in 1..Len(p.workerTasks) : p.workerTasks[w] = t
    THEN CHOOSE w \in 1..Len(p.workerTasks) : p.workerTasks[w] = t
    ELSE 0

\* A timer callback that only rejects (the earlier revision): the worker
\* stays bound to the task until it replies
timeoutCallback_KeepsWorker(p, t) ==
    LET p1 == [p EXCEPT !.tasks[t].timedOut = TRUE, !.tasks[t].timeout = "cleared"]
        p2 == IF BoundWorker(p1, t) # 0 THEN p1
              ELSE [p1 EXCEPT !.taskQueue = RemoveFirst(@, t)]
    IN [p2 EXCEPT !.tasks[t].promise = Settle(@, Rejected(TimedOutError))]

\* A timer callback that leaves a waiting task in the queue
timeoutCallback_LeavesQueue(p, t) ==
    LET p1 == [p EXCEPT !.tasks[t].timedOut = TRUE, !.tasks[t].timeout = "cleared"]
        timedOutWorker == BoundWorker(p1, t)
        p2 == IF timedOutWorker # 0
              THEN returnWorker([p1 EXCEPT !.workerTasks[timedOutWorker] = 0], timedOutWorker)
              ELSE p1
    IN [p2 EXCEPT !.tasks[t].promise = Settle(@, Rejected(TimedOutError))]

\* A timer callback that frees the worker and flags the task but leaves
\* the promise alone
timeoutCallback_NoReject(p, t) ==
    LET p1 == [p EXCEPT !.tasks[t].timedOut = TRUE, !.tasks[t].timeout = "cleared"]
        timedOutWorker == BoundWorker(p1, t)
    IN IF timedOutWorker # 0
       THEN returnWorker([p1 EXCEPT !.workerTasks[timedOutWorker] = 0], timedOutWorker)
       ELSE [p1 EXCEPT !.taskQueue = RemoveFirst(@, t)]

\* lines 52-79: the callback of the task's timer
timeoutCallback(p, t) ==
    LET p1 == [p EXCEPT !.tasks[t].timedOut = TRUE, !.tasks[t].timeout = "cleared"]
        timedOutWorker == BoundWorker(p1, t)
        p2 == IF timedOutWorker # 0
              THEN returnWorker([p1 EXCEPT !.workerTasks[timedOutWorker] = 0], timedOutWorker)
              ELSE [p1 EXCEPT !.taskQueue = RemoveFirst(@, t)]
    IN [p2 EXCEPT !.tasks[t].promise = Settle(@, Rejected(TimedOutError))]

\* lines 147-171: the 'message' handler of worker w
onMessage(p, w, result) ==
    LET t == p.workerTasks[w]
        p1 == [p EXCEPT !.workerTasks[w] = 0]
    IN IF t = 0 THEN p
       ELSE IF p.tasks[t].timedOut THEN returnWorker(p1, w)
       ELSE returnWorker(
              IF result.success /\ result.frameCount # Undefined
              THEN taskResolve(p1, t, result.frameCount)
              ELSE taskReject(p1, t, IF result.error # "" THEN result.error ELSE UnknownError),
              w)

\* lines 173-182: the 'error' handler of worker w
onError(p, w, err) ==
    LET t == p.workerTasks[w]
    IN removeWorker(IF t # 0 THEN taskReject([p EXCEPT !.workerTasks[w] = 0], t, err) ELSE p, w)

\* lines 184-193: the 'exit' handler of worker w
onExit(p, w, code) ==
    LET t == p.workerTasks[w]
    IN IF code # 0
       THEN removeWorker(IF t # 0
                         THEN taskReject([p EXCEPT !.workerTasks[w] = 0], t, ExitedError)
                         ELSE p, w)
       ELSE p

\* lines 276-279: every queued task is rejected
RECURSIVE rejectQueued(_, _)
rejectQueued(p, queue) ==
    IF queue = <<>> THEN p
    ELSE rejectQueued(taskReject(p, Head(queue), TerminatedError), Tail(queue))

\* lines 282-288: the task of every held worker is rejected, the worker terminated
RECURSIVE terminateWorkers(_, _)
terminateWorkers(p, ws) ==
    IF ws = <<>> THEN p
    ELSE LET w == Head(ws)
             t == p.workerTasks[w]
             p1 == IF t # 0 THEN taskReject(p, t, TerminatedError) ELSE p
         IN terminateWorkers([p1 EXCEPT !.threads[w].state = terminateThread(@)], Tail(ws))

\* lines 276-288: terminate() up to its await
terminateSync(p) ==
    terminateWorkers([rejectQueued(p, p.taskQueue) EXCEPT !.taskQueue = <<>>], p.workers)

\* lines 292-294: terminate() after its await
terminateCleanup(p) ==
    [p EXCEPT !.workers = <<>>,
              !.availableWorkers = <<>>,
              !.workerTasks = [w \in 1..Len(p.workerTasks) |-> 0]]

\* postMessage hands the worker a structured clone of its argument: a
\* Buffer arrives as a plain Uint8Array, without the Buffer methods
structuredClone(ref) == IF ref = "buffer" THEN "uint8array" ELSE ref

\* The values a call can throw: an Error of any class with its message, a
\* string, null, undefined
ErrorObject(message) == [type |-> "error", message |-> message]
StringValue(str)     == [type |-> "string", message |-> str]
NullValue            == [type |-> "null", message |-> ""]
UndefinedValue       == [type |-> "undefined", message |-> ""]

\* String(value) for a value that is not an Error
String(value) ==
    CASE value.type = "string"    -> value.message
      [] value.type = "null"      -> "null"
      [] value.type = "undefined" -> "undefined"

\* How a call of getMp3FrameCount ends, as the handler sees it
Returns(value) == [kind |-> "return", value |-> value, thrown |-> UndefinedValue]
Throws(thrown) == [kind |-> "throw", value |-> 0, thrown |-> thrown]

\* The handler without its try block: a call that throws ends the handler,
\* nothing is posted
messageHandler_NoTry(call) ==
    IF call.kind = "return"
    THEN [posted |-> <<[success |-> TRUE, frameCount |-> call.value, error |-> ""]>>,
          uncaught |-> FALSE]
    ELSE [posted |-> <<>>, uncaught |-> TRUE]

\* mp3-parser.worker.ts lines 13-24: what the handler posts on the port for
\* a message whose scan ended as call, and whether an error leaves it
messageHandler(call) ==
    IF call.kind = "return"
    THEN [posted |-> <<[success |-> TRUE, frameCount |-> call.value, error |-> ""]>>,
          uncaught |-> FALSE]
    ELSE [posted |-> <<[success |-> FALSE, frameCount |-> Undefined,
                        error |-> IF call.thrown.type = "error"
                                  THEN call.thrown.message
                                  ELSE String(call.thrown)]>>,
          uncaught |-> FALSE]

\* mp3-parser.worker.ts lines 13-24, for the message the pool posted
workerReply(bytes) ==
    LET r == GetMp3FrameCount(structuredClone("buffer"), bytes)
    IN Head(messageHandler(IF r.kind = "return" THEN Returns(r.value)
                           ELSE Throws(ErrorObject(r.error))).posted)

\* MockExecutor.execute (workers/mock-executor.ts): the scan in the caller's
\* own thread, on the Buffer itself
mockExecute(bytes) ==
    LET r == GetMp3FrameCount("buffer", bytes)
    IN IF r.kind = "return" THEN Resolved(r.value) ELSE Rejected(r.error)

Commit(p) ==
    /\ workers' = p.workers
    /\ availableWorkers' = p.availableWorkers
    /\ taskQueue' = p.taskQueue
    /\ workerTasks' = p.workerTasks
    /\ tasks' = p.tasks
    /\ threads' = p.threads

\* The continuation of terminate() runs as soon as the last awaited worker
\* has exited, before any other event is handled
TerminateReady ==
    /\ terminateCall.state = "awaiting"
    /\ \A w \in terminateCall.awaited : threads[w].state = "exited"

\* The callers submit the buffers of PoolBuffers in rotation
NextBuffer(b) == (b % Len(PoolBuffers)) + 1

\* A call of execute(buffer)
Execute ==
    /\ ~TerminateReady
    /\ Len(tasks) < MaxTasks
    /\ \E b \in DOMAIN PoolBuffers :
          LET p == execute(PoolState, b)
          IN /\ tasks # <<>> => b = NextBuffer(tasks[Len(tasks)].buffer)
             /\ Len(p.threads) <= MaxThreads
             /\ Commit(p)
    /\ UNCHANGED <<terminateCall, scanVars, httpVars>>

\* A pool that settles the task a reply answers, whatever became of the
\* task in the meantime
WorkerMessage_SettlesSender ==
    /\ ~TerminateReady
    /\ \E w \in 1..Len(threads) :
          /\ threads[w].state \in {"running", "terminating"}
          /\ threads[w].inbox # <<>>
          /\ LET m == Head(threads[w].inbox)
                 result == workerReply(PoolBuffers[tasks[m].buffer])
                 p == onMessage([PoolState EXCEPT !.threads[w].inbox = Tail(@)], w, result)
             IN Commit([p EXCEPT !.tasks[m].promise = Resolved(result.frameCount)])
    /\ UNCHANGED <<terminateCall, scanVars, httpVars>>

\* Worker w answers the oldest message it holds and the pool handles the reply
WorkerMessage ==
    /\ ~TerminateReady
    /\ \E w \in 1..Len(threads) :
          /\ threads[w].state \in {"running", "terminating"}
          /\ threads[w].inbox # <<>>
          /\ LET m == Head(threads[w].inbox)
                 result == workerReply(PoolBuffers[tasks[m].buffer])
                 p == onMessage([PoolState EXCEPT !.threads[w].inbox = Tail(@)], w, result)
             IN /\ Commit(p)
    /\ UNCHANGED <<terminateCall, scanVars, httpVars>>

\* The thread of worker w fails with an uncaught error: 'error' is emitted,
\* 'exit' with code 1 follows
WorkerError ==
    /\ ~TerminateReady
    /\ \E w \in 1..Len(threads) :
          /\ threads[w].state = "running"
          /\ LET p == onError([PoolState EXCEPT !.threads[w].state = "failed"], w,
                              WorkerFailure)
             IN /\ Len(p.threads) <= MaxThreads
                /\ Commit(p)
    /\ UNCHANGED <<terminateCall, scanVars, httpVars>>

\* A thread that has ended reads no message any more
ExitedThread(code) == [state |-> "exited", exitCode |-> code, inbox |-> <<>>]

\* The thread of worker w ends: with code 1 after a failure or a
\* terminate(), with either code when it ends by itself
WorkerExit ==
    /\ ~TerminateReady
    /\ \E w \in 1..Len(threads), code \in {0, 1} :
          /\ threads[w].state \in {"running", "failed", "terminating"}
          /\ threads[w].state # "running" => code = 1
          /\ LET p == onExit([PoolState EXCEPT !.threads[w] = ExitedThread(code)], w, code)
             IN /\ Len(p.threads) <= MaxThreads
                /\ Commit(p)
    /\ UNCHANGED <<terminateCall, scanVars, httpVars>>

\* The timer of task t fires
TaskTimeout ==
    /\ ~TerminateReady
    /\ \E t \in 1..Len(tasks) :
          /\ tasks[t].timeout = "armed"
          /\ Commit(timeoutCallback(PoolState, t))
    /\ UNCHANGED <<terminateCall, scanVars, httpVars>>

\* The call of terminate() at shutdown, up to its await
TerminateBegin ==
    /\ ~TerminateReady
    /\ terminateCall.state = "none"
    /\ Commit(terminateSync(PoolState))
    /\ terminateCall' =
          [state |-> "awaiting",
           awaited |-> { workers[i] : i \in 1..Len(workers) },
           queued |-> { taskQueue[i] : i \in 1..Len(taskQueue) },
           inFlight |-> { workerTasks[w] : w \in 1..Len(workerTasks) } \ {0}]
    /\ UNCHANGED <<scanVars, httpVars>>

\* terminate() resumes after Promise.all and completes
TerminateEnd ==
    /\ TerminateReady
    /\ Commit(terminateCleanup(PoolState))
    /\ terminateCall' = [NoTerminate EXCEPT !.state = "done"]
    /\ UNCHANGED <<scanVars, httpVars>>

InitPool == InitWith({BufferSource(<<>>, <<>>, <<>>)})

NextPool ==
    \/ Execute
    \/ WorkerMessage
    \/ WorkerError
    \/ WorkerExit
    \/ TaskTimeout
    \/ TerminateBegin
    \/ TerminateEnd

SpecPool == InitPool /\ [][NextPool]_vars

\* The pool with fewer calls of execute, and with the scheduling Node gives
\* its timers and continuations: a timer that stays armed fires, and
\* terminate() resumes once the workers it awaits have exited
ExecuteFew ==
    /\ Len(tasks) < MaxTasks - 2
    /\ Execute

NextPoolFair ==
    \/ ExecuteFew
    \/ WorkerMessage
    \/ WorkerError
    \/ WorkerExit
    \/ TaskTimeout
    \/ TerminateBegin
    \/ TerminateEnd

SpecPoolFair ==
    InitPool /\ [][NextPoolFair]_vars /\ WF_vars(TaskTimeout) /\ WF_vars(TerminateEnd)

----------------------------------------------------------------------------
(* The worker script by itself (workers/mp3-parser.worker.ts): one thread, *)
(* threads[1], with the messages it has not read yet in inbox and the      *)
(* replies it has posted in outbox.  A message is the structured clone of  *)
(* a buffer.  getMp3FrameCount is the scanner, or a stand-in that returns  *)
(* or throws a given value, as the script's unit tests install             *)
(* (tests/unit/workers/mp3-parser.worker.test.ts).                         *)

ThrownValues ==
    { ErrorObject("Invalid MP3 file"), ErrorObject(""), StringValue("String error"),
      NullValue, UndefinedValue }

Scanner == [kind |-> "scanner", value |-> 0, thrown |-> UndefinedValue]

StandIns == { Returns(42) } \cup { Throws(v) : v \in ThrownValues }

WorkerMessages ==
    { [bytes |-> PoolBuffers[b], scan |-> Scanner] : b \in DOMAIN PoolBuffers } \cup
    { [bytes |-> <<>>, scan |-> c] : c \in StandIns }

\* The end of getMp3FrameCount(buffer) for message m
CallOf(m) ==
    IF m.scan.kind = "scanner"
    THEN LET r == GetMp3FrameCount(structuredClone("buffer"), m.bytes)
         IN IF r.kind = "return" THEN Returns(r.value) ELSE Throws(ErrorObject(r.error))
    ELSE m.scan

InitWorker ==
    /\ src = BufferSource(<<>>, <<>>, <<>>)
    /\ file = <<>>
    /\ pc = "entry"
    /\ frameCount = 0
    /\ position = 0
    /\ endPosition = 0
    /\ error = "none"
    /\ outcome = Unsettled
    /\ decodes = 0
    /\ log = <<>>
    /\ workers = <<>>
    /\ availableWorkers = <<>>
    /\ taskQueue = <<>>
    /\ workerTasks = <<>>
    /\ tasks = <<>>
    /\ threads = <<[state |-> "running", exitCode |-> 0, inbox |-> <<>>, outbox |-> <<>>]>>
    /\ terminateCall = NoTerminate
    /\ NoUpload

\* worker.postMessage(buffer) on the other side of the port
PostMessage ==
    /\ threads[1].state = "running"
    /\ Len(threads[1].inbox) + Len(threads[1].outbox) < MaxCalls
    /\ \E m \in WorkerMessages :
          threads' = [threads EXCEPT ![1].inbox = Append(@, m)]
    /\ UNCHANGED <<workers, availableWorkers, taskQueue, workerTasks, tasks, terminateCall>>
    /\ UNCHANGED <<scanVars, httpVars>>

\* The handler runs for the oldest unread message, lines 13-24
MessageHandler ==
    /\ threads[1].state = "running"
    /\ threads[1].inbox # <<>>
    /\ LET h == messageHandler(CallOf(Head(threads[1].inbox)))
       IN threads' = [threads EXCEPT ![1].inbox = Tail(@),
                                     ![1].outbox = @ \o h.posted,
                                     ![1].state = IF h.uncaught THEN "failed" ELSE @]
    /\ UNCHANGED <<workers, availableWorkers, taskQueue, workerTasks, tasks, terminateCall>>
    /\ UNCHANGED <<scanVars, httpVars>>

NextWorker == PostMessage \/ MessageHandler

SpecWorker == InitWorker /\ [][NextWorker]_vars

----------------------------------------------------------------------------
(* POST /api/file-upload (routes/analyze.ts) past the rate limiter:        *)
(* requestTimeout, uploadSingle (multer with fileFilter),                  *)
(* timeoutErrorHandler, then the controller.  A file name is a sequence of *)
(* characters.  SpecUpload is a request that is handled within the request *)
(* timeout, SpecTimeout lets the timeout elapse at any moment.             *)

MaxName == 4            \* length of an uploaded file's name

BAD_REQUEST == 400
OK == 200
INTERNAL_SERVER_ERROR == 500
REQUEST_TIMEOUT == 408

MP3_MIME_TYPES == [MPEG |-> "audio/mpeg", MP3 |-> "audio/mp3"]
MP3_EXTENSION == <<".", "m", "p", "3">>

\* String.prototype.toLowerCase, character by character
LowerCaseOf(ch) ==
    CASE ch = "M" -> "m"
      [] ch = "P" -> "p"
      [] OTHER -> ch

toLowerCase(str) == [i \in 1..Len(str) |-> LowerCaseOf(str[i])]

\* String.prototype.endsWith
endsWith(str, suffix) ==
    /\ Len(str) >= Len(suffix)
    /\ SubSeq(str, Len(str) - Len(suffix) + 1, Len(str)) = suffix

\* isMp3 with the extension taken without its dot
isMp3_SuffixWithoutDot(f) ==
    \/ f.mimetype = MP3_MIME_TYPES.MPEG
    \/ f.mimetype = MP3_MIME_TYPES.MP3
    \/ endsWith(toLowerCase(f.originalname), Tail(MP3_EXTENSION))

\* middleware/upload.ts lines 66-72
isMp3(f) ==
    \/ f.mimetype = MP3_MIME_TYPES.MPEG
    \/ f.mimetype = MP3_MIME_TYPES.MP3
    \/ endsWith(toLowerCase(f.originalname), MP3_EXTENSION)

\* The uploads a client sends: no file part at all, or one file part
NameAlphabet == {".", "m", "M", "p", "P", "3", "4"}

FileNames == UNION { [1..n -> NameAlphabet] : n \in 0..MaxName }

MimeTypes == {"audio/mpeg", "audio/mp3", "audio/wav", "video/mp4"}

Uploads ==
    {NoFile} \cup
    { [present |-> TRUE, mimetype |-> m, originalname |-> n, buffer |-> PoolBuffers[b]] :
        m \in MimeTypes, n \in FileNames, b \in DOMAIN PoolBuffers }

\* The timeout middleware (connect-timeout with respond: false): it arms
\* the timer and passes the request on
requestTimeout(r) == [r EXCEPT !.timedout = FALSE, !.timer = "armed"]

\* The timer's callback: it only marks the request
onTimeout(r) == [r EXCEPT !.timedout = TRUE, !.timer = "fired"]

\* Sending the response's headers clears the timer
clearTimeout(r) ==
    [r EXCEPT !.timer = CASE r.timer = "armed" -> "cleared"
                          [] r.timer = "due" -> "overdue"
                          [] OTHER -> r.timer]

InitUpload ==
    /\ src = BufferSource(<<>>, <<>>, <<>>)
    /\ file = <<>>
    /\ pc = "entry"
    /\ frameCount = 0
    /\ position = 0
    /\ endPosition = 0
    /\ error = "none"
    /\ outcome = Unsettled
    /\ decodes = 0
    /\ log = <<>>
    /\ NewWorkerPool
    /\ upload \in Uploads
    /\ req = requestTimeout(NewRequest)
    /\ res = NoResponse
    /\ stage = "uploadSingle"
    /\ scanned = <<>>

\* upload.single('file') with fileFilter (middleware/upload.ts lines 49-64):
\* an accepted file is stored in req.file, a refused one is skipped and
\* leaves req.fileValidationError behind
UploadSingle ==
    /\ stage = "uploadSingle"
    /\ req.timer # "due"       \* a due timer runs before the upload's last callback
    /\ req' = IF ~upload.present THEN req
              ELSE IF isMp3(upload) THEN [req EXCEPT !.file = upload]
              ELSE [req EXCEPT !.fileValidationError = TRUE]
    /\ stage' = "timeoutErrorHandler"
    /\ UNCHANGED <<upload, res, scanned, scanVars, poolVars>>

\* timeoutErrorHandler (middleware/timeout.ts lines 43-59); no response has
\* been sent when it runs
TimeoutErrorHandler ==
    /\ stage = "timeoutErrorHandler"
    /\ IF req.timedout
       THEN /\ res' = [status |-> REQUEST_TIMEOUT, error |-> "REQUEST_TIMEOUT",
                       frameCount |-> -1]
            /\ req' = clearTimeout(req)
            /\ stage' = "responded"
       ELSE /\ stage' = "analyze"
            /\ UNCHANGED <<req, res>>
    /\ UNCHANGED <<upload, scanned, scanVars, poolVars>>

\* The controller with an empty scan reported as a failure
analyze_ZeroFramesIsError(r) ==
    IF ~r.file.present
    THEN [res |-> [status |-> BAD_REQUEST,
                   error |-> IF r.fileValidationError THEN "INVALID_FILE_TYPE"
                             ELSE "No file uploaded",
                   frameCount |-> -1],
          called |-> <<>>]
    ELSE LET frames == GetMp3FrameCount("buffer", r.file.buffer)
         IN [res |-> IF frames.kind = "return" /\ frames.value > 0
                     THEN [status |-> OK, error |-> "none", frameCount |-> frames.value]
                     ELSE [status |-> INTERNAL_SERVER_ERROR, error |-> "ANALYSIS_ERROR",
                           frameCount |-> -1],
             called |-> <<r.file.buffer>>]

\* The controller with the service called before the file is looked at
analyze_ServiceCalledFirst(r) ==
    IF ~r.file.present
    THEN [res |-> [status |-> BAD_REQUEST,
                   error |-> IF r.fileValidationError THEN "INVALID_FILE_TYPE"
                             ELSE "No file uploaded",
                   frameCount |-> -1],
          called |-> <<r.file.buffer>>]
    ELSE LET frames == GetMp3FrameCount("buffer", r.file.buffer)
         IN [res |-> IF frames.kind = "return"
                     THEN [status |-> OK, error |-> "none", frameCount |-> frames.value]
                     ELSE [status |-> INTERNAL_SERVER_ERROR, error |-> "ANALYSIS_ERROR",
                           frameCount |-> -1],
             called |-> <<r.file.buffer>>]

\* AnalyzeController.analyze (controllers/analyze.controller.ts): the
\* response it sends and the buffers it hands to the analysis service
analyze(r) ==
    IF ~r.file.present
    THEN [res |-> [status |-> BAD_REQUEST,
                   error |-> IF r.fileValidationError THEN "INVALID_FILE_TYPE"
                             ELSE "No file uploaded",
                   frameCount |-> -1],
          called |-> <<>>]
    ELSE LET frames == GetMp3FrameCount("buffer", r.file.buffer)
         IN [res |-> IF frames.kind = "return"
                     THEN [status |-> OK, error |-> "none", frameCount |-> frames.value]
                     ELSE [status |-> INTERNAL_SERVER_ERROR, error |-> "ANALYSIS_ERROR",
                           frameCount |-> -1],
             called |-> <<r.file.buffer>>]

\* The controller runs to completion: no timer callback runs inside it
Analyze ==
    /\ stage = "analyze"
    /\ res' = analyze(req).res
    /\ scanned' = scanned \o analyze(req).called
    /\ req' = clearTimeout(req)
    /\ stage' = "responded"
    /\ UNCHANGED <<upload, scanVars, poolVars>>

NextUpload == UploadSingle \/ TimeoutErrorHandler \/ Analyze

SpecUpload == InitUpload /\ [][NextUpload]_vars

\* The uploads of the requests whose timeout may elapse
TimeoutUploads == { u \in Uploads : Len(u.originalname) <= MaxName - 2 }

InitTimeout ==
    /\ src = BufferSource(<<>>, <<>>, <<>>)
    /\ file = <<>>
    /\ pc = "entry"
    /\ frameCount = 0
    /\ position = 0
    /\ endPosition = 0
    /\ error = "none"
    /\ outcome = Unsettled
    /\ decodes = 0
    /\ log = <<>>
    /\ NewWorkerPool
    /\ upload \in TimeoutUploads
    /\ req = NewRequest
    /\ res = NoResponse
    /\ stage = "requestTimeout"
    /\ scanned = <<>>

\* requestTimeout in the chain of the route
RequestTimeout ==
    /\ stage = "requestTimeout"
    /\ req' = requestTimeout(req)
    /\ stage' = "uploadSingle"
    /\ UNCHANGED <<upload, res, scanned, scanVars, poolVars>>

\* The delay of the timer elapses.  This can happen at any moment before
\* the timer is cleared, also while the controller is running.
TimerElapses ==
    /\ req.timer = "armed"
    /\ req' = [req EXCEPT !.timer = "due"]
    /\ UNCHANGED <<upload, res, stage, scanned, scanVars, poolVars>>

\* The timer's callback runs.  It needs the event loop: it runs while the
\* upload is being received, never between the end of the upload and the
\* end of the controller, which follow each other in one turn.
TimeoutCallback ==
    /\ req.timer = "due"
    /\ stage = "uploadSingle"
    /\ req' = onTimeout(req)
    /\ UNCHANGED <<upload, res, stage, scanned, scanVars, poolVars>>

NextTimeout ==
    \/ RequestTimeout
    \/ TimerElapses
    \/ TimeoutCallback
    \/ UploadSingle
    \/ TimeoutErrorHandler
    \/ Analyze

SpecTimeout == InitTimeout /\ [][NextTimeout]_vars

----------------------------------------------------------------------------
(* Properties *)

IsBuffer == src.ref = "buffer"
Settled == pc = "done"

HeaderAt(buf, pos) == parseFrameHeader(buf, pos).header
ValidHeaderAt(buf, pos) ==
    parseFrameHeader(buf, pos).raised = "none" /\ isValidFrame(HeaderAt(buf, pos))
FrameLengthAt(buf, pos) == calculateFrameLength(HeaderAt(buf, pos))

\* the bytes hold no position at which a valid header can be decoded
NoValidHeaderIn(bytes) == \A i \in 0..(Len(bytes) - 4) : ~ValidHeaderAt(bytes, i)

\* the three bytes at offset length - 128 spell "TAG"
HasTrailerMarker(bytes) ==
    /\ Len(bytes) >= 128
    /\ SubSeq(bytes, Len(bytes) - 127, Len(bytes) - 125) = <<84, 65, 71>>

\* a leading tag as the format defines it: "ID3", a synchsafe size, and
\* exactly that many body bytes
IsId3v2Tag(tag) ==
    /\ Len(tag) >= 10
    /\ SubSeq(tag, 1, 3) = <<73, 68, 51>>
    /\ \A i \in 7..10 : tag[i] < 128
    /\ Len(tag) = 10 + tag[7] * 2097152 + tag[8] * 16384 + tag[9] * 128 + tag[10]

CountOf(bytes) == GetMp3FrameCount("buffer", bytes)

Frame192 == [bitrateIndex |-> 5, sampleRateIndex |-> 1, padding |-> 0, len |-> 192]

\* C1: in the scan loop a valid header at position p with frame length L is
\* counted (count + 1, position p + L, scan goes on) exactly when
\* p + L < endPosition; otherwise the scan stops at once and the count it
\* returns is the count it had.
C1_BoundaryRule ==
    [][ /\ (pc = "loop" /\ LoopGuard(position, endPosition) /\ ValidHeaderAt(file, position))
          => IF position + FrameLengthAt(file, position) < endPosition
             THEN /\ frameCount' = frameCount + 1
                  /\ position' = position + FrameLengthAt(file, position)
                  /\ pc' = "loop"
             ELSE /\ pc' = "ret"
                  /\ frameCount' = frameCount
        /\ (pc = "loop" /\ LoopGuard(position, endPosition) /\ ~ValidHeaderAt(file, position))
          => frameCount' = frameCount
        /\ pc = "ret" => outcome' = ReturnValue(frameCount) ]_vars

\* a frame was counted and the next one ends exactly at the boundary: the scan stopped
C1_Witness ==
    /\ pc = "ret"
    /\ IsBuffer
    /\ frameCount >= 1
    /\ LoopGuard(position, endPosition)
    /\ ValidHeaderAt(file, position)
    /\ position + FrameLengthAt(file, position) = endPosition

\* C2: for every byte buffer the call returns a non-negative integer and
\* raises nothing to its caller.
C2_NonNegativeNoThrow ==
    (Settled /\ IsBuffer) => (outcome.kind = "return" /\ outcome.value \in Nat)

\* a buffer with a tag, frames and a trailer was scanned to a positive count
C2_Witness ==
    /\ Settled
    /\ IsBuffer
    /\ src.tag # <<>>
    /\ Len(src.frames) >= 2
    /\ Len(src.rest) = 128
    /\ outcome.kind = "return"
    /\ outcome.value >= 2

\* C3: a valid leading ID3v2 tag in front of a stream of N valid frames
\* leaves the count of the stream unchanged.
C3_LeadingTagTransparent ==
    (Settled /\ IsBuffer /\ IsId3v2Tag(src.tag) /\ src.rest = <<>>)
        => outcome = CountOf(StreamBytes(src.frames))

\* a tag with a body in front of two frames, of which one is counted
C3_Witness ==
    /\ Settled
    /\ IsBuffer
    /\ IsId3v2Tag(src.tag)
    /\ Len(src.tag) > 10
    /\ src.rest = <<>>
    /\ Len(src.frames) = 2
    /\ outcome.value = 1

\* C4 as stated: a 128-byte trailing "TAG" block after a stream of N valid
\* frames leaves the count of the stream unchanged, whatever the payloads.
C4_TrailingTagTransparent_AnyPayload ==
    (Settled /\ IsBuffer /\ src.tag = <<>> /\ src.rest = Trailer(<<84, 65, 71>>))
        => outcome = CountOf(StreamBytes(src.frames))

\* C4 amended: a 128-byte trailing "TAG" block after a stream of N valid
\* frames leaves the count of the stream unchanged, provided the stream
\* does not itself hold the bytes "TAG" at its offset length - 128.
C4_TrailingTagTransparent ==
    (/\ Settled /\ IsBuffer /\ src.tag = <<>> /\ src.rest = Trailer(<<84, 65, 71>>)
     /\ ~HasTrailerMarker(StreamBytes(src.frames)))
        => outcome = CountOf(StreamBytes(src.frames))

\* two frames and a trailing tag: one frame counted, as without the tag
C4_Witness ==
    /\ Settled
    /\ IsBuffer
    /\ src.tag = <<>>
    /\ src.rest = Trailer(<<84, 65, 71>>)
    /\ Len(src.frames) = 2
    /\ ~HasTrailerMarker(StreamBytes(src.frames))
    /\ outcome.value = 1

\* C5 as stated: one 192-byte frame followed by at least 5 bytes without a
\* valid header counts 1 for every payload; the frame alone counts 0.
C5_SingleFrame_AnyPayload ==
    (Settled /\ IsBuffer /\ src.tag = <<>> /\ Len(src.frames) = 1
     /\ src.frames[1].kind = Frame192)
        => /\ (Len(src.rest) >= 5 /\ NoValidHeaderIn(src.rest)) => outcome = ReturnValue(1)
           /\ src.rest = <<>> => outcome = ReturnValue(0)

\* C5 amended: one 192-byte frame followed by at least 5 bytes without a
\* valid header counts 1 provided the three bytes at offset length - 128 of
\* the buffer are not "TAG"; the frame alone counts 0 for every payload.
C5_SingleFrame ==
    (Settled /\ IsBuffer /\ src.tag = <<>> /\ Len(src.frames) = 1
     /\ src.frames[1].kind = Frame192)
        => /\ (Len(src.rest) >= 5 /\ NoValidHeaderIn(src.rest) /\ ~HasTrailerMarker(file))
                => outcome = ReturnValue(1)
           /\ src.rest = <<>> => outcome = ReturnValue(0)

\* the frame, with a header-like pattern in its payload, followed by 5 bytes
C5_Witness ==
    /\ Settled
    /\ IsBuffer
    /\ src.tag = <<>>
    /\ Len(src.frames) = 1
    /\ src.frames[1].kind = Frame192
    /\ src.frames[1].mark.pat = SyncHeader
    /\ Len(src.rest) = 5
    /\ outcome = ReturnValue(1)

\* C6: the count is 0, with no error raised, for the empty buffer, every
\* buffer shorter than 4 bytes and every all-zero buffer; for a buffer of
\* at most 4 bytes no header is decoded at all.
C6_ShortAndZeroBuffers ==
    IsBuffer =>
        /\ (Settled /\ (Len(file) < 4 \/ \A i \in 1..Len(file) : file[i] = 0))
              => (outcome = ReturnValue(0) /\ error = "none")
        /\ Len(file) <= 4 => (decodes = 0 /\ pc # "catch")

\* the four bytes of a valid header alone: settled with 0 and never decoded
C6_Witness ==
    /\ Settled
    /\ IsBuffer
    /\ file = SyncHeader
    /\ decodes = 0
    /\ outcome = ReturnValue(0)

\* C7 as stated: a call with an absent (null or undefined) buffer
\* reference fails with an error its caller sees.
C7_AbsentBufferFailsLoudly ==
    (Settled /\ ~IsBuffer) => outcome.kind = "throw"

\* C8: two calls on byte-identical buffers return the same count, whatever
\* was scanned before or in between.
C8_Deterministic ==
    \A i, j \in 1..Len(log) :
        (/\ log[i].src.ref = log[j].src.ref
         /\ Assemble(log[i].src) = Assemble(log[j].src))
            => log[i].outcome = log[j].outcome

\* the same frames scanned twice with another buffer scanned in between
C8_Witness ==
    /\ Len(log) = 3
    /\ log[1].src = log[3].src
    /\ log[2].src # log[1].src
    /\ log[2].outcome.value >= 1
    /\ log[1].outcome.value >= 2

\* C9: from the call to its return the buffer keeps the bytes and the
\* length the caller passed.
C9_BufferUnchanged ==
    file = Assemble(src)

\* a scan that decoded headers, counted frames and returned
C9_Witness ==
    /\ Settled
    /\ IsBuffer
    /\ decodes >= 3
    /\ outcome.value >= 1
    /\ file = Assemble(src)
    /\ Len(file) > 192

\* C24: every header decode of the scan loop happens at a position p with
\* 0 <= p, p + 4 <= buffer length and p < endPosition - 4, also when the
\* leading tag moved the start past the end of the buffer; the bounds
\* failure of parseFrameHeader is never raised from the loop.
C24_DecodesInBounds ==
    IsBuffer =>
        /\ (pc = "loop" /\ LoopGuard(position, endPosition))
              => /\ 0 <= position
                 /\ position + 4 <= Len(file)
                 /\ position < endPosition - 4
        /\ error # "RangeError"
        /\ pc # "catch"

\* a tag header announcing more bytes than the buffer holds: the scan
\* started past the end, decoded nothing and returned 0
C24_Witness ==
    /\ Settled
    /\ IsBuffer
    /\ src.tag = Id3v2Header(0, 0, 1, 0)
    /\ src.rest = Zeros(6)
    /\ position = 138
    /\ position > Len(file)
    /\ decodes = 0
    /\ outcome = ReturnValue(0)

\* the size of a leading tag with the top bit of each size byte ignored
SynchsafeSize(buf) ==
    (buf[7] % 128) * 2097152 + (buf[8] % 128) * 16384 + (buf[9] % 128) * 128 + (buf[10] % 128)

\* C25 as stated: when the buffer begins with "ID3" and holds at least 10
\* bytes, the scan starts at 10 + size, size being made of the low seven
\* bits of each of the four size bytes, for every value of those bytes.
C25_SynchsafeStart ==
    (/\ IsBuffer
     /\ pc = "loop"
     /\ decodes = 0
     /\ Len(file) >= 10
     /\ SubSeq(file, 1, 3) = <<73, 68, 51>>)
        => position = 10 + SynchsafeSize(file)

\* the loop is about to decode the header at position
Decoding == IsBuffer /\ pc = "loop" /\ LoopGuard(position, endPosition)

\* bit k of the four bytes at pos, k = 0 being the top bit of the first byte
BitAt(buf, pos, k) == (At(buf, pos + (k \div 8)) \div (2 ^ (7 - (k % 8)))) % 2

\* the number written in bits from..to of the four bytes at pos
RECURSIVE Field(_, _, _, _)
Field(buf, pos, from, to) ==
    IF from > to THEN 0
    ELSE 2 * Field(buf, pos, from, to - 1) + BitAt(buf, pos, to)

\* C26 as stated: the decoded fields are bits 0-10 (frame sync), 11-12
\* (version), 13-14 (layer), 15-18 (bitrate index), 19-20 (sample-rate
\* index) and 21 (padding) of the big-endian word, counted from the top.
C26_PackedLayout ==
    Decoding =>
        HeaderAt(file, position) =
            [frameSync       |-> Field(file, position, 0, 10),
             mpegVersion     |-> Field(file, position, 11, 12),
             layer           |-> Field(file, position, 13, 14),
             bitrateIndex    |-> Field(file, position, 15, 18),
             sampleRateIndex |-> Field(file, position, 19, 20),
             padding         |-> Field(file, position, 21, 21)]

\* C26 amended: the decoded fields are bits 0-10 (frame sync), 11-12
\* (version), 13-14 (layer), 16-19 (bitrate index), 20-21 (sample-rate
\* index) and 22 (padding) of the big-endian word, counted from the top;
\* bit 15 and bits 23-31 are not decoded.
C26_HeaderLayout ==
    Decoding =>
        HeaderAt(file, position) =
            [frameSync       |-> Field(file, position, 0, 10),
             mpegVersion     |-> Field(file, position, 11, 12),
             layer           |-> Field(file, position, 13, 14),
             bitrateIndex    |-> Field(file, position, 16, 19),
             sampleRateIndex |-> Field(file, position, 20, 21),
             padding         |-> Field(file, position, 22, 22)]

\* a word with bit 15 and the low byte set has been decoded: the scan moved on
\* by one byte because its layer field is 3
C26_Witness ==
    /\ IsBuffer
    /\ file = HeaderWord(2047, 3, 3, 1, 9, 2, 1, 255) \o Zeros(2)
    /\ pc = "loop"
    /\ decodes = 1
    /\ position = 1
    /\ HeaderAt(file, 0) = [frameSync |-> 2047, mpegVersion |-> 3, layer |-> 3,
                            bitrateIndex |-> 9, sampleRateIndex |-> 2, padding |-> 1]

\* C27: isValidFrame is true exactly when frameSync = 0x7FF, version = 3,
\* layer = 1, bitrateIndex is in 1..14 and sampleRateIndex is in 0..2.
C27_ValidExactly ==
    Decoding =>
        LET h == HeaderAt(file, position)
        IN isValidFrame(h) <=>
             /\ h.frameSync = 2047
             /\ h.mpegVersion = 3
             /\ h.layer = 1
             /\ h.bitrateIndex \in 1..14
             /\ h.sampleRateIndex \in 0..2

\* a header with the highest valid indexes was accepted: its frame does not
\* fit, so the scan stopped at it
C27_Witness ==
    /\ IsBuffer
    /\ file = HeaderWord(2047, 3, 1, 0, 14, 2, 1, 255) \o Zeros(2)
    /\ pc = "ret"
    /\ decodes = 1
    /\ position = 0
    /\ isValidFrame(HeaderAt(file, 0))

\* the header at pos is valid, told from the bits of the buffer
ValidBitsAt(buf, pos) ==
    /\ Field(buf, pos, 0, 10) = 2047
    /\ Field(buf, pos, 11, 12) = 3
    /\ Field(buf, pos, 13, 14) = 1
    /\ Field(buf, pos, 16, 19) \in 1..14
    /\ Field(buf, pos, 20, 21) \in 0..2

\* C28: when the header decoded at position p is invalid, the scan advances
\* to exactly p + 1 with the frame count unchanged, and goes on from there.
C28_InvalidAdvancesByOne ==
    [][ (Decoding /\ ~ValidBitsAt(file, position))
          => /\ position' = position + 1
             /\ frameCount' = frameCount
             /\ pc' = "loop" ]_vars

\* an otherwise valid header with bitrate index 15 was rejected and the
\* scan stands one byte further
C28_Witness ==
    /\ IsBuffer
    /\ file = HeaderWord(2047, 3, 1, 1, 15, 1, 0, 0) \o Zeros(2)
    /\ pc = "loop"
    /\ decodes = 1
    /\ position = 1
    /\ frameCount = 0

\* C29: for every valid header the frame length is the floor of
\* 144 * bitrate * 1000 / sampleRate plus the padding bit, a positive
\* integer; 192 and 193 for index 5 at 48000 Hz, 417 for index 9 at
\* 44100 Hz, 960 for index 14 at 48000 Hz.
C29_FrameLength ==
    (Decoding /\ ValidBitsAt(file, position)) =>
        LET h == HeaderAt(file, position)
            len == FrameLengthAt(file, position)
            whole == len - h.padding
            bits == 144 * BITRATES_V1_L3[h.bitrateIndex + 1] * 1000
            rate == SAMPLE_RATES_V1[h.sampleRateIndex + 1]
        IN /\ whole * rate <= bits
           /\ bits < (whole + 1) * rate
           /\ len > 0
           /\ (h.bitrateIndex = 5 /\ h.sampleRateIndex = 1) => len = 192 + h.padding
           /\ (h.bitrateIndex = 9 /\ h.sampleRateIndex = 0) => len = 417 + h.padding
           /\ (h.bitrateIndex = 14 /\ h.sampleRateIndex = 1) => len = 960 + h.padding

\* the 128 kbps header at 44100 Hz was measured: 417 bytes, more than the
\* buffer holds, so the scan stopped at it
C29_Witness ==
    /\ IsBuffer
    /\ file = HeaderWord(2047, 3, 1, 0, 9, 0, 0, 0) \o Zeros(2)
    /\ pc = "ret"
    /\ decodes = 1
    /\ position = 0
    /\ FrameLengthAt(file, 0) = 417

\* C30: the end boundary is length - 128 exactly when the buffer holds at
\* least 128 bytes and the three bytes at offset length - 128 are "TAG";
\* in every other case it is the length.
C30_EndBoundary ==
    (IsBuffer /\ pc # "entry") =>
        endPosition = IF HasTrailerMarker(file) THEN Len(file) - 128 ELSE Len(file)

\* a buffer that is nothing but a trailing tag: boundary 0, count 0
C30_Witness ==
    /\ Settled
    /\ IsBuffer
    /\ file = Trailer(<<84, 65, 71>>)
    /\ endPosition = 0
    /\ decodes = 0
    /\ outcome = ReturnValue(0)

\* the entry block has run and the loop has not decoded anything yet:
\* position is the start position of the scan
AtStart == IsBuffer /\ pc = "loop" /\ decodes = 0

\* C31 as stated: the start position is 0 when the buffer does not begin
\* with "ID3" or holds fewer than 10 bytes; a buffer of exactly 10 bytes
\* beginning with "ID3" has its start at 10 + size, size being the
\* synchsafe size of the tag header.
C31_StartPosition ==
    AtStart =>
        /\ (Len(file) < 10 \/ SubSeq(file, 1, 3) # <<73, 68, 51>>) => position = 0
        /\ (Len(file) = 10 /\ SubSeq(file, 1, 3) = <<73, 68, 51>>)
              => position = 10 + SynchsafeSize(file)

\* C32: decoding is the inverse of packing: the six fields decoded from a
\* packed word at its offset are each within their unsigned range and pack
\* to the same four bytes again, also when the top bit of the word is set.
C32_DecodeInvertsPack ==
    (Decoding /\ position = Len(src.tag)) =>
        LET h == HeaderAt(file, position)
        IN /\ h.frameSync \in 0..2047
           /\ h.mpegVersion \in 0..3
           /\ h.layer \in 0..3
           /\ h.bitrateIndex \in 0..15
           /\ h.sampleRateIndex \in 0..3
           /\ h.padding \in 0..1
           /\ createHeaderBuffer(h.frameSync, h.mpegVersion, h.layer, h.bitrateIndex,
                                 h.sampleRateIndex, h.padding)
                = SubSeq(file, position + 1, position + 4)

\* a word with its top bit set was decoded at offset 1 and accepted as a
\* header; its frame does not fit, so the scan stopped there
C32_Witness ==
    /\ src = PackedSource(1, 2047, 3, 1, 14, 2, 1)
    /\ pc = "ret"
    /\ position = 1
    /\ decodes = 2
    /\ HeaderAt(file, 1) = [frameSync |-> 2047, mpegVersion |-> 3, layer |-> 1,
                            bitrateIndex |-> 14, sampleRateIndex |-> 2, padding |-> 1]

C34_ScanTerminates ==
    /\ [][ Decoding =>
              \/ pc' \in {"ret", "catch"}
              \/ /\ pc' = "loop"
                 /\ position' >= position + 1
                 /\ frameCount' = frameCount => position' = position + 1
                 /\ frameCount' # frameCount => frameCount' = frameCount + 1 ]_vars
    /\ [](IsBuffer => decodes <= Len(file))
    /\ <>Settled

\* a scan over a tag and three frames has settled after counting two of
\* them in three passes
C34_Witness ==
    /\ Settled
    /\ IsBuffer
    /\ src.tag # <<>>
    /\ Len(src.frames) = 3
    /\ decodes = 3
    /\ decodes <= Len(file)
    /\ outcome = ReturnValue(2)

----------------------------------------------------------------------------
(* Properties of the worker pool *)

Range(seq) == { seq[i] : i \in 1..Len(seq) }

\* Task t is posted to a worker in this step (executeTask binds it)
PostedInStep(t) ==
    \E w \in 1..Len(workerTasks') :
        workerTasks'[w] = t /\ (w > Len(workerTasks) \/ workerTasks[w] # t)

\* This step is a call of execute
ExecuteStep == Len(tasks') = Len(tasks) + 1

\* C11: in every reachable state, whatever the order of execute calls,
\* replies, errors, exits, timeouts and terminate calls, the pool holds at
\* most MAX_WORKERS workers.
C11_WorkerLimit == Len(workers) <= MAX_WORKERS

\* The pool is at its limit after a worker died and was replaced, with a
\* task waiting
C11_Witness ==
    /\ Len(workers) = MAX_WORKERS
    /\ Len(threads) > MAX_WORKERS
    /\ taskQueue # <<>>

\* C12: a task submitted while no worker is available and the pool is at
\* capacity is appended to the queue and not posted; and whenever a task is
\* posted to a worker, no task submitted before it is waiting in the queue.
C12_QueueOrder ==
    [][ /\ (ExecuteStep /\ availableWorkers = <<>> /\ Len(workers) >= MAX_WORKERS)
            => (taskQueue' = Append(taskQueue, Len(tasks')) /\ ~PostedInStep(Len(tasks')))
        /\ \A t \in 1..Len(tasks') :
              PostedInStep(t) => \A i \in 1..Len(taskQueue') : taskQueue'[i] > t ]_vars

\* The timer of task t fires in this step
TimeoutStep(t) == t <= Len(tasks) /\ ~tasks[t].timedOut /\ tasks'[t].timedOut

\* C13: every unsettled task, waiting or in flight, has had its timer
\* running since it was submitted, and when the timer fires the task is
\* rejected with the timeout error.
C13_TimeoutFromSubmission ==
    [][ /\ \A t \in 1..Len(tasks') :
              tasks'[t].promise.state = "pending" => tasks'[t].timeout = "armed"
        /\ \A t \in 1..Len(tasks') :
              TimeoutStep(t) => /\ tasks[t].timeout = "armed"
                                /\ tasks[t].promise.state = "pending"
                                /\ tasks'[t].promise = Rejected(TimedOutError) ]_vars

\* The second task timed out while it waited behind the first (the only
\* worker still holds the first task's message, and only that), then the
\* first timed out in flight
C13_Witness ==
    /\ Len(tasks) = 2
    /\ Len(threads) = 1
    /\ threads[1].state = "running"
    /\ threads[1].inbox = <<1>>
    /\ tasks[1].promise = Rejected(TimedOutError)
    /\ tasks[2].promise = Rejected(TimedOutError)

\* Worker w dies in this step: its thread raises an error, or exits with a
\* code other than 0
DeathStep(w) ==
    /\ w <= Len(threads)
    /\ \/ threads[w].state = "running" /\ threads'[w].state = "failed"
       \/ threads[w].state # "exited" /\ threads'[w].state = "exited"
             /\ threads'[w].exitCode # 0

TerminateEndStep == terminateCall.state = "awaiting" /\ terminateCall'.state = "done"

\* C15: when terminate() completes, every task that was waiting or in
\* flight when it was called is rejected with 'Worker pool terminated', no
\* thread the pool created is still running, and the queue, the worker
\* list, the available list and the worker-to-task map are empty.
C15_TerminateLeavesNothing ==
    [][ TerminateEndStep =>
          /\ \A t \in terminateCall.queued \cup terminateCall.inFlight :
                tasks'[t].promise = Rejected(TerminatedError)
          /\ \A w \in 1..Len(threads') : threads'[w].state # "running"
          /\ taskQueue' = <<>>
          /\ workers' = <<>>
          /\ availableWorkers' = <<>>
          /\ \A w \in 1..Len(workerTasks') : workerTasks'[w] = 0 ]_vars

C17_WorkerReleasedAtTimeout ==
    [][ /\ \A t \in 1..Len(tasks) :
              (TimeoutStep(t) /\ BoundWorker(PoolState, t) # 0) =>
                 LET w == BoundWorker(PoolState, t)
                 IN /\ workerTasks'[w] # t
                    /\ IF taskQueue # <<>>
                       THEN /\ workerTasks'[w] = Head(taskQueue)
                            /\ taskQueue' = Tail(taskQueue)
                       ELSE /\ workerTasks'[w] = 0
                            /\ availableWorkers' = Append(availableWorkers, w)
        /\ (ExecuteStep /\ availableWorkers # <<>>) =>
              /\ workerTasks'[availableWorkers[Len(availableWorkers)]] = Len(tasks')
              /\ taskQueue' = taskQueue ]_vars

\* A later task is bound to the worker whose thread still holds the
\* unanswered message of a task that timed out
C17_Witness ==
    \E w \in 1..Len(threads), t1, t2 \in 1..Len(tasks) :
        /\ t1 < t2
        /\ tasks[t1].promise = Rejected(TimedOutError)
        /\ threads[w].state = "running"
        /\ threads[w].inbox = <<t1, t2>>
        /\ workerTasks[w] = t2
        /\ tasks[t2].promise.state = "pending"

\* C18: a task whose timer fires while it waits leaves the queue in that
\* step, and a task that has timed out is never posted to a worker.
C18_TimedOutNeverDispatched ==
    [][ /\ \A t \in 1..Len(tasks) :
              (TimeoutStep(t) /\ t \in Range(taskQueue)) => t \notin Range(taskQueue')
        /\ \A t \in 1..Len(tasks) :
              tasks[t].timedOut => (t \notin Range(taskQueue) /\ ~PostedInStep(t)) ]_vars

\* The second task timed out while it waited behind the first; when the
\* first was answered the worker took the third, the only message it holds
C18_Witness ==
    /\ terminateCall.state = "none"
    /\ Len(tasks) = 3
    /\ Len(threads) = 1
    /\ tasks[1].promise.state = "resolved"
    /\ tasks[2].promise = Rejected(TimedOutError)
    /\ tasks[3].promise.state = "pending"
    /\ workerTasks[1] = 3
    /\ threads[1].inbox = <<3>>

\* C19: as long as no timer has fired, no worker has failed or exited and
\* terminate() has not been called, a task the pool has resolved holds the
\* value MockExecutor.execute gives for the same buffer, the frame count of
\* getMp3FrameCount.
C19_ExecutorsAgree ==
    ( /\ \A t \in 1..Len(tasks) : ~tasks[t].timedOut
      /\ \A w \in 1..Len(threads) : threads[w].state = "running"
      /\ terminateCall.state = "none" )
    => \A t \in 1..Len(tasks) :
          tasks[t].promise.state = "resolved" =>
             tasks[t].promise = mockExecute(PoolBuffers[tasks[t].buffer])

\* Task t is resolved in this step
ResolveStep(t) ==
    t <= Len(tasks) /\ tasks[t].promise.state = "pending"
                    /\ tasks'[t].promise.state = "resolved"

\* Worker w answers the message of task m in this step
AnswerStep(w, m) ==
    /\ w <= Len(threads)
    /\ threads[w].inbox # <<>>
    /\ Head(threads[w].inbox) = m
    /\ Len(threads'[w].inbox) >= Len(threads[w].inbox) - 1
    /\ SubSeq(threads'[w].inbox, 1, Len(threads[w].inbox) - 1) = Tail(threads[w].inbox)

\* C35: under any interleaving of execute calls, replies, timeouts and
\* worker failures, a task is resolved only by the reply a worker computed
\* from that task's own buffer: the reply handled in the step that resolves
\* task t answers the message of t, and carries the count of t's buffer.
C35_ReplyOfOwnBuffer ==
    [][ \A t \in 1..Len(tasks) :
          ResolveStep(t) =>
             /\ \E w \in 1..Len(threads) : AnswerStep(w, t)
             /\ tasks'[t].promise =
                   Resolved(workerReply(PoolBuffers[tasks[t].buffer]).frameCount) ]_vars

\* C36: every task submitted to execute is eventually settled (resolved, or
\* rejected by a worker error, its timeout or terminate()), given that
\* timers fire, and it is settled at most once: once a task's promise is
\* resolved or rejected it never changes.
C36_SettledOnce ==
    /\ [][ \A t \in 1..Len(tasks) :
              tasks[t].promise.state # "pending" => tasks'[t].promise = tasks[t].promise ]_vars
    /\ \A t \in 1..MaxTasks :
          [](Len(tasks) >= t => <>(Len(tasks) >= t /\ tasks[t].promise.state # "pending"))

\* The first task was resolved by its worker's reply, the second was
\* rejected by terminate(), and terminate() has completed since
C36_Witness ==
    /\ Len(tasks) = 2
    /\ tasks[1].promise.state = "resolved"
    /\ tasks[2].promise = Rejected(TerminatedError)
    /\ terminateCall.state = "done"

\* C37: the pool is work-conserving: in every reachable state where a task
\* waits in the queue, no worker is in the available list and the pool
\* holds MAX_WORKERS workers; and a worker in the available list is never
\* bound to a task.
C37_WorkConserving ==
    /\ taskQueue # <<>> => (availableWorkers = <<>> /\ Len(workers) = MAX_WORKERS)
    /\ \A i \in 1..Len(availableWorkers) : workerTasks[availableWorkers[i]] = 0

\* The text the claim asks for in the reply to a message whose scan threw:
\* the message of an Error, the string form of any other value
MessageText(thrown) ==
    CASE thrown.type = "error"     -> thrown.message
      [] thrown.type = "string"    -> thrown.message
      [] thrown.type = "null"      -> "null"
      [] thrown.type = "undefined" -> "undefined"

\* The worker's handler runs in this step
HandlerStep == Len(threads'[1].inbox) < Len(threads[1].inbox)

\* C38: for each message it reads, the worker posts exactly one reply and
\* its handler does not throw: success with the frame count when
\* getMp3FrameCount returns, failure with the message text when it throws
\* an Error of any class or any other value; the messages are answered in
\* the order they were received, and nothing is posted otherwise.
C38_OneReplyPerMessage ==
    [][ IF HandlerStep
        THEN LET m == Head(threads[1].inbox)
                 call == CallOf(m)
                 reply == threads'[1].outbox[Len(threads'[1].outbox)]
             IN /\ threads'[1].inbox = Tail(threads[1].inbox)
                /\ Len(threads'[1].outbox) = Len(threads[1].outbox) + 1
                /\ SubSeq(threads'[1].outbox, 1, Len(threads[1].outbox)) = threads[1].outbox
                /\ threads'[1].state = "running"
                /\ IF call.kind = "return"
                   THEN reply.success /\ reply.frameCount = call.value
                   ELSE ~reply.success /\ reply.error = MessageText(call.thrown)
        ELSE threads'[1].outbox = threads[1].outbox ]_vars

\* Three messages were answered in turn: a buffer whose scan returned, a
\* call that threw an Error, a call that threw null
C38_Witness ==
    /\ Len(threads) = 1
    /\ threads[1].inbox = <<>>
    /\ Len(threads[1].outbox) = 3
    /\ threads[1].outbox[1].success
    /\ threads[1].outbox[2] = [success |-> FALSE, frameCount |-> Undefined,
                               error |-> "Invalid MP3 file"]
    /\ threads[1].outbox[3] = [success |-> FALSE, frameCount |-> Undefined, error |-> "null"]

\* The thread of worker w ends with code 0 in this step
ZeroExitStep(w) ==
    /\ w <= Len(threads)
    /\ threads[w].state # "exited"
    /\ threads'[w].state = "exited"
    /\ threads'[w].exitCode = 0

\* C39: an 'exit' event with code 0 rejects no task and leaves the worker
\* in the pool, and the pool stays usable: a task submitted afterwards
\* (terminate() not having been called) goes to a worker whose thread reads
\* its message, so that it can still be resolved with its result.
C39_ZeroExitHarmless ==
    [][ /\ \A w \in 1..Len(threads) :
              ZeroExitStep(w) => /\ tasks' = tasks
                                 /\ workers' = workers
                                 /\ availableWorkers' = availableWorkers
                                 /\ workerTasks' = workerTasks
                                 /\ taskQueue' = taskQueue
        /\ \A w \in 1..Len(threads') :
              (ExecuteStep /\ terminateCall.state = "none" /\ workerTasks'[w] = Len(tasks'))
                 => /\ threads'[w].state = "running"
                    /\ Len(tasks') \in Range(threads'[w].inbox) ]_vars

----------------------------------------------------------------------------
(* Properties of the upload endpoint *)

\* The upload carries an MP3 identity: its MIME type is audio/mpeg or
\* audio/mp3, or its name ends in ".mp3" in any mix of cases
HasMp3Identity(f) ==
    \/ f.mimetype \in {"audio/mpeg", "audio/mp3"}
    \/ /\ Len(f.originalname) >= 4
       /\ f.originalname[Len(f.originalname) - 3] = "."
       /\ f.originalname[Len(f.originalname) - 2] \in {"m", "M"}
       /\ f.originalname[Len(f.originalname) - 1] \in {"p", "P"}
       /\ f.originalname[Len(f.originalname)] = "3"

\* C20: the scanner is handed a buffer only when the upload carries an MP3
\* identity, and an uploaded file without one is answered with 400
\* INVALID_FILE_TYPE, its bytes never handed to the scanner.
C20_OnlyMp3Scanned ==
    /\ scanned # <<>> => (upload.present /\ HasMp3Identity(upload))
    /\ (stage = "responded" /\ upload.present /\ ~HasMp3Identity(upload)) =>
          /\ res.status = BAD_REQUEST
          /\ res.error = "INVALID_FILE_TYPE"
          /\ scanned = <<>>

\* A file named "mp3" of type video/mp4 has been refused
C20_Witness ==
    /\ stage = "responded"
    /\ upload.present
    /\ upload.mimetype = "video/mp4"
    /\ upload.originalname = <<"m", "p", "3">>
    /\ res.status = BAD_REQUEST
    /\ res.error = "INVALID_FILE_TYPE"
    /\ scanned = <<>>

\* C21: an accepted upload in which the scanner finds no frame is answered
\* with 200 and frameCount 0, not with an error.
C21_ZeroFramesIsSuccess ==
    (/\ stage = "responded"
     /\ req.file.present
     /\ GetMp3FrameCount("buffer", req.file.buffer) = ReturnValue(0)) =>
        res = [status |-> OK, error |-> "none", frameCount |-> 0]

\* A file of six zero bytes named ".mp3" has been answered with success
C21_Witness ==
    /\ stage = "responded"
    /\ req.file.present
    /\ req.file.buffer = Zeros(6)
    /\ req.file.originalname = MP3_EXTENSION
    /\ res = [status |-> OK, error |-> "none", frameCount |-> 0]

\* C22: a request with no file and no file-type validation error is answered
\* with 400 and the NO_FILE_UPLOADED error, and the analysis service is not
\* called for it.
C22_NoFileIsBadRequest ==
    (/\ stage = "responded"
     /\ ~req.file.present
     /\ ~req.fileValidationError) =>
        /\ res.status = BAD_REQUEST
        /\ res.error = "No file uploaded"
        /\ scanned = <<>>

\* A request without a file part has been answered
C22_Witness ==
    /\ stage = "responded"
    /\ ~upload.present
    /\ ~req.file.present
    /\ ~req.fileValidationError
    /\ res.status = BAD_REQUEST
    /\ res.error = "No file uploaded"
    /\ scanned = <<>>

\* C23: a request whose timeout elapsed before its response was sent is
\* answered with 408 REQUEST_TIMEOUT, whether the timeout elapsed during the
\* upload or during the analysis.
C23_ExceededIsRequestTimeout ==
    (stage = "responded" /\ req.timer \in {"fired", "overdue"}) =>
        /\ res.status = REQUEST_TIMEOUT
        /\ res.error = "REQUEST_TIMEOUT"

====
